---- MODULE Spec2Model ----
(***************************************************************************)
(* A model of the docker-cluster CoreDNS plugin of traefikturkey/joyride:  *)
(* the copy-on-write record store with last-writer-wins metadata           *)
(* (records.go), the gossip delegate and cluster manager (delegate.go,     *)
(* cluster.go) and the Docker watcher (docker_watcher.go).                 *)
(*                                                                         *)
(* Strings that the code compares or normalises (hostnames, node ids) are  *)
(* sequences of byte codes, so that strings.ToLower and Go's string        *)
(* ordering are computed, not assumed.  Ip addresses are opaque strings.   *)
(***************************************************************************)
EXTENDS Integers, Sequences, FiniteSets, TLC

(***************************************************************************)
(* Bounds of the model.                                                    *)
(***************************************************************************)
\* timestamps range over 0..MaxTs (0 is the zero value of int64)
MaxTs == 1
\* deltas in one delivery-order experiment
MaxBatch == 2
\* mutator calls started under concurrency
MaxCalls == 2

Timestamps == 0..MaxTs

\* "a", "A", "b"
HostA == <<97>>
HostUpperA == <<65>>
HostB == <<98>>
Hostnames == {HostA, HostUpperA, HostB}

\* node ids "1", "10", "2": "1" < "10" < "2" in Go's string order
Node1 == <<49>>
Node10 == <<49, 48>>
Node2 == <<50>>
EmptyString == << >>
NodeIDs == {Node1, Node10, Node2}

Ip1 == "10.0.0.1"
Ip2 == "10.0.0.2"
IPs == {Ip1, Ip2}

(***************************************************************************)
(* Strings.                                                                *)
(***************************************************************************)
\* strings.ToLower on ASCII bytes
ToLower(s) == [i \in DOMAIN s |-> IF s[i] \in 65..90 THEN s[i] + 32 ELSE s[i]]

\* Go's a < b on strings: bytewise lexicographic, a proper prefix is smaller
StrLess(a, b) ==
    \E i \in 1..(Len(a) + 1) :
        /\ \A j \in 1..(i - 1) : j <= Len(b) /\ a[j] = b[j]
        /\ \/ i = Len(a) + 1 /\ Len(b) >= i
           \/ i <= Len(a) /\ i <= Len(b) /\ a[i] < b[i]

\* Go's a >= b on strings
StrGE(a, b) == ~StrLess(a, b)

(***************************************************************************)
(* Maps (copy-on-write: every update builds a new map).                    *)
(***************************************************************************)
EmptyMap == [k \in {} |-> k]
MapPut(m, k, v) == [x \in (DOMAIN m) \cup {k} |-> IF x = k THEN v ELSE m[x]]
MapDel(m, k) == [x \in (DOMAIN m) \ {k} |-> m[x]]

(***************************************************************************)
(* The record store: Records{data, meta}.                                  *)
(***************************************************************************)
RecordActionAdd == 0
RecordActionRemove == 1
\* a RecordAction value that is neither add nor remove
RecordActionOther == 2

RecordMeta(ts, node) == [Timestamp |-> ts, NodeID |-> node]

NewRecords == [data |-> EmptyMap, meta |-> EmptyMap]

\* a mutated Add that also stamps the record
AddStamped(r, hostname, ip) ==
    [data |-> MapPut(r.data, ToLower(hostname), ip),
     meta |-> MapPut(r.meta, ToLower(hostname), RecordMeta(0, EmptyString))]

\* Records.Add: unconditional, writes the data map only
Add(r, hostname, ip) ==
    [r EXCEPT !.data = MapPut(r.data, ToLower(hostname), ip)]

\* Records.Remove: unconditional, writes the data map only
Remove(r, hostname) ==
    LET h == ToLower(hostname) IN
    IF h \notin DOMAIN r.data THEN r
    ELSE [r EXCEPT !.data = MapDel(r.data, h)]

\* Records.Lookup: [ip, found]
Lookup(r, hostname) ==
    LET h == ToLower(hostname) IN
    IF h \in DOMAIN r.data THEN [ip |-> r.data[h], found |-> TRUE]
    ELSE [ip |-> "", found |-> FALSE]

\* Records.GetMeta: [meta, found], the zero RecordMeta when not found
GetMeta(r, hostname) ==
    LET h == ToLower(hostname) IN
    IF h \in DOMAIN r.meta THEN [meta |-> r.meta[h], found |-> TRUE]
    ELSE [meta |-> RecordMeta(0, EmptyString), found |-> FALSE]

\* a mutated LWW check that lets an equal (timestamp, node id) through
ExistingWinsStrict(existing, timestamp, nodeID) ==
    \/ existing.Timestamp > timestamp
    \/ existing.Timestamp = timestamp /\ StrLess(nodeID, existing.NodeID)

\* a mutated LWW check that ignores the node id tie-break
ExistingWinsNoTie(existing, timestamp, nodeID) ==
    existing.Timestamp > timestamp

\* a mutated LWW check that breaks ties towards the smaller node id
ExistingWinsReversed(existing, timestamp, nodeID) ==
    \/ existing.Timestamp > timestamp
    \/ existing.Timestamp = timestamp /\ StrGE(nodeID, existing.NodeID)

\* the LWW check of AddWithMeta and RemoveWithMeta: the stored stamp wins
ExistingWins(existing, timestamp, nodeID) ==
    \/ existing.Timestamp > timestamp
    \/ existing.Timestamp = timestamp /\ StrGE(existing.NodeID, nodeID)

\* Records.AddWithMeta: [rec, ok]
AddWithMeta(r, hostname, ip, timestamp, nodeID) ==
    LET h == ToLower(hostname) IN
    IF h \in DOMAIN r.meta /\ ExistingWins(r.meta[h], timestamp, nodeID)
    THEN [rec |-> r, ok |-> FALSE]
    ELSE [rec |-> [data |-> MapPut(r.data, h, ip),
                   meta |-> MapPut(r.meta, h, RecordMeta(timestamp, nodeID))],
          ok |-> TRUE]

\* a mutated RemoveWithMeta that leaves the metadata entry behind
RemoveWithMetaKeepMeta(r, hostname, timestamp, nodeID) ==
    LET h == ToLower(hostname) IN
    IF h \notin DOMAIN r.data THEN [rec |-> r, ok |-> FALSE]
    ELSE IF h \in DOMAIN r.meta /\ ExistingWins(r.meta[h], timestamp, nodeID)
    THEN [rec |-> r, ok |-> FALSE]
    ELSE [rec |-> [data |-> MapDel(r.data, h), meta |-> r.meta],
          ok |-> TRUE]

\* Records.RemoveWithMeta: [rec, ok]
RemoveWithMeta(r, hostname, timestamp, nodeID) ==
    LET h == ToLower(hostname) IN
    IF h \notin DOMAIN r.data THEN [rec |-> r, ok |-> FALSE]
    ELSE IF h \in DOMAIN r.meta /\ ExistingWins(r.meta[h], timestamp, nodeID)
    THEN [rec |-> r, ok |-> FALSE]
    ELSE [rec |-> [data |-> MapDel(r.data, h), meta |-> MapDel(r.meta, h)],
          ok |-> TRUE]

\* RecordMessage
RecordMessage(hostname, ip, action, timestamp, nodeID) ==
    [Hostname |-> hostname, IP |-> ip, Action |-> action,
     Timestamp |-> timestamp, NodeID |-> nodeID]

\* a mutated ApplyMessage that reports a rejected delta as applied
ApplyMessageAlwaysTrue(r, msg) ==
    IF msg.Action = RecordActionAdd
    THEN [rec |-> AddWithMeta(r, msg.Hostname, msg.IP, msg.Timestamp, msg.NodeID).rec,
          ok |-> TRUE]
    ELSE IF msg.Action = RecordActionRemove
    THEN [rec |-> RemoveWithMeta(r, msg.Hostname, msg.Timestamp, msg.NodeID).rec,
          ok |-> TRUE]
    ELSE [rec |-> r, ok |-> FALSE]

\* Records.ApplyMessage: [rec, ok]
ApplyMessage(r, msg) ==
    IF msg.Action = RecordActionAdd
    THEN AddWithMeta(r, msg.Hostname, msg.IP, msg.Timestamp, msg.NodeID)
    ELSE IF msg.Action = RecordActionRemove
    THEN RemoveWithMeta(r, msg.Hostname, msg.Timestamp, msg.NodeID)
    ELSE [rec |-> r, ok |-> FALSE]

\* (timestamp, node id) stamps under the lexicographic order of the LWW rule
StampLess(t1, n1, t2, n2) == t1 < t2 \/ (t1 = t2 /\ StrLess(n1, n2))

VARIABLES
    \* delivery-order experiment: the deltas, what each replica has still to
    \* apply, and the two replicas' stores
    batch, todo, replica,
    \* one store driven call by call: the store and the last call made on it
    records, call,
    \* one store under concurrent mutators and a reader, step by step:
    \* the maps held by the two atomic.Values, the mutex, the mutator
    \* goroutines, the reader goroutine, the number of calls started, and two
    \* history variables: the store as the completed publications produce it
    \* with the atomic operators, and the ips published per hostname
    dataPtr, metaPtr, mu, wr, rd, calls, abs, writtenIps,
    \* the watcher without a callback: the containers the runtime runs with
    \* their labels, the event stream, the watcher's tracker
    \* (DockerWatcher.containers) and its record store
    docker, events, containers, wrecords,
    \* the cluster: per node the record store, the watcher's tracker, the
    \* callbacks the watcher has still to make, the Notify call in progress,
    \* the broadcast queue, the incoming channel, whether the manager is
    \* started and the last local timestamp; history: whether the last
    \* change of any store was a push/pull made at rest, the last local
    \* change per node and hostname, the deltas that never reached a peer
    stores, tracker, pending, notify, broadcasts, msgChan, started, lastTs,
    synced, localLog, lost,
    \* one delegate's store under direct calls of MergeRemoteState and of the
    \* store's mutators, and the last call made
    mstore, mcall,
    \* two started nodes whose managers are called directly: per node the store,
    \* the NotifyRecordAdd call in progress, the broadcast queue and the incoming
    \* channel; history: the deltas each node emitted and the remote deltas its
    \* worker applied
    gstore, gnotify, gqueue, gchan, emitted, gapplied,
    \* one delegate called by memberlist: its store, its incoming channel and
    \* the last call with the store and the channel it found
    dstore, dchan, dcall,
    \* one ClusterManager: its configuration, its fields, the contexts made by
    \* Start, the goroutines and the memberlist instances, and the last call
    seeds, cmScope, cmMemberlist, cmDiscovery, dScope, created, workers, discLoops, bound, leaveCalls, shutdownCalls, mlast,
    \* one watcher handling events: whether a callback is set, its tracker and
    \* store, and the last handler with what it found and what it emitted
    tcallback, tcontainers, trecords, tcall,
    \* one DNS handler: its configuration, the store it reads and the last
    \* query with what the handler wrote and returned
    hcfg, hrecords, hlast,
    \* one watcher with its worker goroutine: the running flag, the context,
    \* the worker's position and backoff, the client, the runtime and its
    \* containers, the event stream, tracker and store, the position of Stop
    \* and the error the worker saw last
    lrunning, lcancelled, lpc, backoff, lclient, reachable, ldocker, levents, lcontainers, lrecords, stopPc, lerr,
    \* DockerWatcher.Start and Stop called from several goroutines: the running
    \* flag, the ctx and cancel fields, the cancelled contexts, the wait group,
    \* the running watchLoop goroutines, each caller's position and the calls made
    dwRunning, dwCtx, dwCancel, ctxDone, dwWg, loops, lifePc, nStart, nStop,
    \* ClusterManager.Stop beside the goroutines that use the manager: the seeds
    \* setting, cm.mu, the mutex and length of the broadcast queue, the library's
    \* instance, the manager's context, Peer Discovery, the delegate worker, and
    \* the positions of Stop, a NotifyRecord caller, the library's gossip
    \* goroutine, Join and the discovery join loop
    tdSeeds, tdMu, tdQmu, tdQueue, tdMemberlist, tdLeft, tdCtxDone, tdDiscovery, tdWorker, tdStopPc, tdStopTrace, tdStopErr, tdNotifyPc, tdGossipPc, tdJoin, tdLoop,
    \* the watcher mutex, the manager mutex and the store mutex, the position of
    \* each goroutine that takes them, the handler the watch loop runs, the lock
    \* pairs taken one inside the other, and whether a callback is registered
    lkW, lkM, lkS, lkPc, lkJob, lkEdges, lkCallback

orderVars == <<batch, todo, replica>>
storeVars == <<records, call>>
concVars == <<dataPtr, metaPtr, mu, wr, rd, calls, abs, writtenIps>>
watchVars == <<docker, events, containers, wrecords>>
clusterVars ==
    <<stores, tracker, pending, notify, broadcasts, msgChan, started, lastTs,
      synced, localLog, lost>>
mergeVars == <<mstore, mcall>>
gossipVars == <<gstore, gnotify, gqueue, gchan, emitted, gapplied>>
delegateVars == <<dstore, dchan, dcall>>
managerVars == <<seeds, cmScope, cmMemberlist, cmDiscovery, dScope, created, workers, discLoops, bound, leaveCalls, shutdownCalls, mlast>>
trackerVars == <<tcallback, tcontainers, trecords, tcall>>
handlerVars == <<hcfg, hrecords, hlast>>
loopVars == <<lrunning, lcancelled, lpc, backoff, lclient, reachable, ldocker, levents, lcontainers, lrecords, stopPc, lerr>>
lifeVars == <<dwRunning, dwCtx, dwCancel, ctxDone, dwWg, loops, lifePc, nStart, nStop>>
teardownVars == <<tdSeeds, tdMu, tdQmu, tdQueue, tdMemberlist, tdLeft, tdCtxDone, tdDiscovery, tdWorker, tdStopPc, tdStopTrace, tdStopErr, tdNotifyPc, tdGossipPc, tdJoin, tdLoop>>
lockVars == <<lkW, lkM, lkS, lkPc, lkJob, lkEdges, lkCallback>>
vars == <<orderVars, storeVars, concVars, watchVars, clusterVars, mergeVars, gossipVars, delegateVars, managerVars, trackerVars, handlerVars, loopVars, lifeVars, teardownVars, lockVars>>

\* what each part leaves alone
othersOrder == <<storeVars, concVars, watchVars, clusterVars, mergeVars, gossipVars, delegateVars, managerVars, trackerVars, handlerVars, loopVars, lifeVars, teardownVars, lockVars>>
othersStore == <<orderVars, concVars, watchVars, clusterVars, mergeVars, gossipVars, delegateVars, managerVars, trackerVars, handlerVars, loopVars, lifeVars, teardownVars, lockVars>>
othersConc == <<orderVars, storeVars, watchVars, clusterVars, mergeVars, gossipVars, delegateVars, managerVars, trackerVars, handlerVars, loopVars, lifeVars, teardownVars, lockVars>>
othersWatch == <<orderVars, storeVars, concVars, clusterVars, mergeVars, gossipVars, delegateVars, managerVars, trackerVars, handlerVars, loopVars, lifeVars, teardownVars, lockVars>>
othersCluster == <<orderVars, storeVars, concVars, watchVars, mergeVars, gossipVars, delegateVars, managerVars, trackerVars, handlerVars, loopVars, lifeVars, teardownVars, lockVars>>
othersMerge == <<orderVars, storeVars, concVars, watchVars, clusterVars, gossipVars, delegateVars, managerVars, trackerVars, handlerVars, loopVars, lifeVars, teardownVars, lockVars>>
othersGossip == <<orderVars, storeVars, concVars, watchVars, clusterVars, mergeVars, delegateVars, managerVars, trackerVars, handlerVars, loopVars, lifeVars, teardownVars, lockVars>>
othersDelegate == <<orderVars, storeVars, concVars, watchVars, clusterVars, mergeVars, gossipVars, managerVars, trackerVars, handlerVars, loopVars, lifeVars, teardownVars, lockVars>>
othersManager == <<orderVars, storeVars, concVars, watchVars, clusterVars, mergeVars, gossipVars, delegateVars, trackerVars, handlerVars, loopVars, lifeVars, teardownVars, lockVars>>
othersTracker == <<orderVars, storeVars, concVars, watchVars, clusterVars, mergeVars, gossipVars, delegateVars, managerVars, handlerVars, loopVars, lifeVars, teardownVars, lockVars>>
othersHandler == <<orderVars, storeVars, concVars, watchVars, clusterVars, mergeVars, gossipVars, delegateVars, managerVars, trackerVars, loopVars, lifeVars, teardownVars, lockVars>>
othersLoop == <<orderVars, storeVars, concVars, watchVars, clusterVars, mergeVars, gossipVars, delegateVars, managerVars, trackerVars, handlerVars, lifeVars, teardownVars, lockVars>>
othersLife == <<orderVars, storeVars, concVars, watchVars, clusterVars, mergeVars, gossipVars, delegateVars, managerVars, trackerVars, handlerVars, loopVars, teardownVars, lockVars>>
othersTeardown == <<orderVars, storeVars, concVars, watchVars, clusterVars, mergeVars, gossipVars, delegateVars, managerVars, trackerVars, handlerVars, loopVars, lifeVars, lockVars>>
othersLock == <<orderVars, storeVars, concVars, watchVars, clusterVars, mergeVars, gossipVars, delegateVars, managerVars, trackerVars, handlerVars, loopVars, lifeVars, teardownVars>>

\* the values the variables of a part keep while another part runs
OrderIdle ==
    /\ batch = {}
    /\ todo = [r \in {1, 2} |-> {}]
    /\ replica = [r \in {1, 2} |-> NewRecords]

NoCall == [op |-> "none"]

StoreIdle ==
    /\ records = NewRecords
    /\ call = NoCall

ConcIdle ==
    /\ dataPtr = EmptyMap
    /\ metaPtr = EmptyMap
    /\ mu = 0
    /\ wr = << >>
    /\ rd = [pc |-> "idle"]
    /\ calls = 0
    /\ abs = NewRecords
    /\ writtenIps = << >>

WatchIdle ==
    /\ docker = EmptyMap
    /\ events = << >>
    /\ containers = EmptyMap
    /\ wrecords = NewRecords

ClusterIdle ==
    /\ stores = << >>
    /\ tracker = << >>
    /\ pending = << >>
    /\ notify = << >>
    /\ broadcasts = << >>
    /\ msgChan = << >>
    /\ started = << >>
    /\ lastTs = << >>
    /\ synced = FALSE
    /\ localLog = << >>
    /\ lost = {}

MergeIdle ==
    /\ mstore = NewRecords
    /\ mcall = NoCall

GossipIdle ==
    /\ gstore = << >>
    /\ gnotify = << >>
    /\ gqueue = << >>
    /\ gchan = << >>
    /\ emitted = << >>
    /\ gapplied = << >>

DelegateIdle ==
    /\ dstore = NewRecords
    /\ dchan = << >>
    /\ dcall = NoCall

ManagerIdle ==
    /\ seeds = FALSE
    /\ cmScope = 0
    /\ cmMemberlist = 0
    /\ cmDiscovery = 0
    /\ dScope = 0
    /\ created = << >>
    /\ workers = {}
    /\ discLoops = {}
    /\ bound = {}
    /\ leaveCalls = 0
    /\ shutdownCalls = 0
    /\ mlast = NoCall

TrackerIdle ==
    /\ tcallback = FALSE
    /\ tcontainers = EmptyMap
    /\ trecords = NewRecords
    /\ tcall = NoCall

HandlerIdle ==
    /\ hcfg = [TTL |-> 0, Fall |-> FALSE, Next |-> FALSE, UnknownAction |-> 0]
    /\ hrecords = NewRecords
    /\ hlast = NoCall

LoopIdle ==
    /\ lrunning = FALSE
    /\ lcancelled = FALSE
    /\ lpc = "none"
    /\ backoff = 1
    /\ lclient = FALSE
    /\ reachable = TRUE
    /\ ldocker = EmptyMap
    /\ levents = << >>
    /\ lcontainers = EmptyMap
    /\ lrecords = NewRecords
    /\ stopPc = "idle"
    /\ lerr = "none"

LifeIdle ==
    /\ dwRunning = FALSE
    /\ dwCtx = 0
    /\ dwCancel = 0
    /\ ctxDone = {}
    /\ dwWg = 0
    /\ loops = {}
    /\ lifePc = [c \in {1, 2} |-> "idle"]
    /\ nStart = 0
    /\ nStop = 0

TeardownIdle ==
    /\ tdSeeds = FALSE
    /\ tdMu = [w |-> FALSE, r |-> {}, pend |-> FALSE]
    /\ tdQmu = FALSE
    /\ tdQueue = 0
    /\ tdMemberlist = "nil"
    /\ tdLeft = FALSE
    /\ tdCtxDone = FALSE
    /\ tdDiscovery = "nil"
    /\ tdWorker = "none"
    /\ tdStopPc = "idle"
    /\ tdStopTrace = << >>
    /\ tdStopErr = FALSE
    /\ tdNotifyPc = "idle"
    /\ tdGossipPc = "idle"
    /\ tdJoin = [pc |-> "idle"]
    /\ tdLoop = [pc |-> "none"]

LockIdle ==
    /\ lkW = [w |-> "none", r |-> {}]
    /\ lkM = [w |-> "none", r |-> {}]
    /\ lkS = "none"
    /\ lkPc = [g \in {"worker", "setup", "manager", "delegate"} |-> "idle"]
    /\ lkJob = [kind |-> "none", n |-> 0, todo |-> 0]
    /\ lkEdges = {}
    /\ lkCallback = FALSE

(***************************************************************************)
(* SpecOrder: a set of deltas for one hostname is applied with             *)
(* ApplyMessage to two initially empty stores, each in an order of its     *)
(* own.                                                                    *)
(***************************************************************************)
Replicas == {1, 2}

\* the deltas gossip can carry for one hostname
Deltas ==
    {RecordMessage(HostA, ip, RecordActionAdd, t, n) :
        ip \in IPs, t \in Timestamps, n \in NodeIDs}
    \cup {RecordMessage(HostA, "", RecordActionRemove, t, n) :
        t \in Timestamps, n \in NodeIDs}

RECURSIVE SubsetsUpTo(_, _)
SubsetsUpTo(S, k) ==
    IF k = 0 THEN {{}}
    ELSE LET P == SubsetsUpTo(S, k - 1)
         IN  P \cup {p \cup {x} : p \in P, x \in S}

InitOrder ==
    /\ batch \in SubsetsUpTo(Deltas, MaxBatch)
    /\ todo = [r \in Replicas |-> batch]
    /\ replica = [r \in Replicas |-> NewRecords]
    /\ StoreIdle
    /\ ConcIdle
    /\ WatchIdle
    /\ ClusterIdle
    /\ MergeIdle
    /\ GossipIdle
    /\ DelegateIdle
    /\ ManagerIdle
    /\ TrackerIdle
    /\ HandlerIdle
    /\ LoopIdle
    /\ LifeIdle
    /\ TeardownIdle
    /\ LockIdle

\* replica r receives delta d (the second replica runs after the first: the
\* two are independent, so their interleaving adds nothing)
Deliver(r, d) ==
    /\ d \in todo[r]
    /\ r = 2 => todo[1] = {}
    /\ replica' = [replica EXCEPT ![r] = ApplyMessage(@, d).rec]
    /\ todo' = [todo EXCEPT ![r] = @ \ {d}]
    /\ UNCHANGED <<batch, othersOrder>>

NextOrder == \E r \in Replicas : \E d \in Deltas : Deliver(r, d)

SpecOrder == InitOrder /\ [][NextOrder]_vars

(***************************************************************************)
(* SpecStore: one store, any sequence of Add, Remove and ApplyMessage      *)
(* calls; call records the last call, the store it ran on and its result.  *)
(***************************************************************************)
Messages ==
    {RecordMessage(h, ip, RecordActionAdd, t, n) :
        h \in Hostnames, ip \in IPs, t \in Timestamps, n \in NodeIDs}
    \cup {RecordMessage(h, "", a, t, n) :
        h \in Hostnames, a \in {RecordActionRemove, RecordActionOther},
        t \in Timestamps, n \in NodeIDs}

InitStore ==
    /\ records = NewRecords
    /\ call = NoCall
    /\ OrderIdle
    /\ ConcIdle
    /\ WatchIdle
    /\ ClusterIdle
    /\ MergeIdle
    /\ GossipIdle
    /\ DelegateIdle
    /\ ManagerIdle
    /\ TrackerIdle
    /\ HandlerIdle
    /\ LoopIdle
    /\ LifeIdle
    /\ TeardownIdle
    /\ LockIdle

CallAdd(h, ip) ==
    /\ records' = Add(records, h, ip)
    /\ call' = [op |-> "Add", hostname |-> h, ip |-> ip, before |-> records]
    /\ UNCHANGED othersStore

CallRemove(h) ==
    /\ records' = Remove(records, h)
    /\ call' = [op |-> "Remove", hostname |-> h, before |-> records]
    /\ UNCHANGED othersStore

CallApplyMessage(msg) ==
    LET res == ApplyMessage(records, msg) IN
    /\ records' = res.rec
    /\ call' = [op |-> "ApplyMessage", msg |-> msg, before |-> records,
                ok |-> res.ok]
    /\ UNCHANGED othersStore

NextStore ==
    \/ \E h \in Hostnames, ip \in IPs : CallAdd(h, ip)
    \/ \E h \in Hostnames : CallRemove(h)
    \/ \E msg \in Messages : CallApplyMessage(msg)

SpecStore == InitStore /\ [][NextStore]_vars

(***************************************************************************)
(* SpecConc: the store under concurrent callers, one step per shared       *)
(* access.  A mutator goroutine runs the statements of its method in       *)
(* program order; a map it builds is private until it is stored in the     *)
(* atomic.Value, and is the very object readers hold from then on.         *)
(***************************************************************************)
Writers == {1, 2}
\* the ip each mutator goroutine writes, and the node id it stamps
WriterIp(t) == IF t = 1 THEN Ip1 ELSE Ip2
WriterNode(t) == IF t = 1 THEN Node1 ELSE Node2
\* hostnames the mutators are called with, and the keys they become
ConcHosts == {HostUpperA, HostB}
ConcKeys == {ToLower(h) : h \in ConcHosts}

ConcOps(t) ==
    {[kind |-> "Add", hostname |-> h, ip |-> WriterIp(t),
      ts |-> 0, node |-> EmptyString] : h \in ConcHosts}
    \cup {[kind |-> "Remove", hostname |-> h, ip |-> "",
           ts |-> 0, node |-> EmptyString] : h \in ConcHosts}
    \cup {[kind |-> "AddWithMeta", hostname |-> h, ip |-> WriterIp(t),
           ts |-> ts, node |-> WriterNode(t)] :
             h \in ConcHosts, ts \in Timestamps}
    \cup {[kind |-> "RemoveWithMeta", hostname |-> h, ip |-> "",
           ts |-> ts, node |-> WriterNode(t)] :
             h \in ConcHosts, ts \in Timestamps}

\* the statements of each mutator, in program order
AddProgram ==
    <<"lock", "loadData", "makeData", "copyData", "setData", "storeData",
      "unlock">>

RemoveProgram ==
    <<"lock", "loadData", "checkExists", "makeData", "copyDataExcept",
      "storeData", "unlock">>

\* a mutated AddWithMeta that stores the new data map before filling it
AddWithMetaProgramStoreFirst ==
    <<"lock", "loadMeta", "checkLWW", "loadData", "makeData", "storeData",
      "copyData", "setData", "makeMeta", "copyMeta", "setMeta", "storeMeta",
      "unlock">>

AddWithMetaProgram ==
    <<"lock", "loadMeta", "checkLWW", "loadData", "makeData", "copyData",
      "setData", "makeMeta", "copyMeta", "setMeta", "storeData", "storeMeta",
      "unlock">>

RemoveWithMetaProgram ==
    <<"lock", "loadData", "checkExists", "loadMeta", "checkLWW", "makeData",
      "copyDataExcept", "makeMeta", "copyMetaExcept", "storeData",
      "storeMeta", "unlock">>

Program(kind) ==
    CASE kind = "Add" -> AddProgram
      [] kind = "Remove" -> RemoveProgram
      [] kind = "AddWithMeta" -> AddWithMetaProgram
      [] kind = "RemoveWithMeta" -> RemoveWithMetaProgram

\* the method as one atomic operation
OpResult(r, op) ==
    CASE op.kind = "Add" -> Add(r, op.hostname, op.ip)
      [] op.kind = "Remove" -> Remove(r, op.hostname)
      [] op.kind = "AddWithMeta" ->
            AddWithMeta(r, op.hostname, op.ip, op.ts, op.node).rec
      [] op.kind = "RemoveWithMeta" ->
            RemoveWithMeta(r, op.hostname, op.ts, op.node).rec

WIdle == [pc |-> 0]
RIdle == [pc |-> "idle"]

InitConc ==
    /\ dataPtr = EmptyMap
    /\ metaPtr = EmptyMap
    /\ mu = 0
    /\ wr = [t \in Writers |-> WIdle]
    /\ rd = RIdle
    /\ calls = 0
    /\ abs = NewRecords
    /\ writtenIps = [k \in ConcKeys |-> {}]
    /\ OrderIdle
    /\ StoreIdle
    /\ WatchIdle
    /\ ClusterIdle
    /\ MergeIdle
    /\ GossipIdle
    /\ DelegateIdle
    /\ ManagerIdle
    /\ TrackerIdle
    /\ HandlerIdle
    /\ LoopIdle
    /\ LifeIdle
    /\ TeardownIdle
    /\ LockIdle

\* the statement goroutine t is about to run
Instr(t) ==
    IF wr[t].pc = 0 THEN "idle" ELSE Program(wr[t].op.kind)[wr[t].pc]

\* goroutine t enters a mutator; the hostname is lowercased on entry
WBegin(t, op) ==
    /\ wr[t].pc = 0
    /\ calls < MaxCalls
    /\ calls' = calls + 1
    /\ wr' = [wr EXCEPT ![t] =
                [pc |-> 1, op |-> op, h |-> ToLower(op.hostname),
                 curData |-> EmptyMap, curMeta |-> EmptyMap,
                 newData |-> EmptyMap, newMeta |-> EmptyMap, pub |-> FALSE]]
    /\ UNCHANGED <<dataPtr, metaPtr, mu, rd, abs, writtenIps, othersConc>>

\* a mutated Lock that never waits
DoLockNoWait(t) ==
    /\ Instr(t) = "lock"
    /\ mu' = t
    /\ wr' = [wr EXCEPT ![t].pc = @ + 1]
    /\ UNCHANGED <<dataPtr, metaPtr, rd, calls, abs, writtenIps, othersConc>>

\* r.mu.Lock()
DoLock(t) ==
    /\ Instr(t) = "lock"
    /\ mu = 0
    /\ mu' = t
    /\ wr' = [wr EXCEPT ![t].pc = @ + 1]
    /\ UNCHANGED <<dataPtr, metaPtr, rd, calls, abs, writtenIps, othersConc>>

\* r.data.Load()
DoLoadData(t) ==
    /\ Instr(t) = "loadData"
    /\ wr' = [wr EXCEPT ![t].pc = @ + 1, ![t].curData = dataPtr]
    /\ UNCHANGED <<dataPtr, metaPtr, mu, rd, calls, abs, writtenIps, othersConc>>

\* r.meta.Load()
DoLoadMeta(t) ==
    /\ Instr(t) = "loadMeta"
    /\ wr' = [wr EXCEPT ![t].pc = @ + 1, ![t].curMeta = metaPtr]
    /\ UNCHANGED <<dataPtr, metaPtr, mu, rd, calls, abs, writtenIps, othersConc>>

\* an early return runs the deferred Unlock next; the call changes nothing
ReturnEarly(t) ==
    /\ wr' = [wr EXCEPT ![t].pc = Len(Program(wr[t].op.kind))]
    /\ abs' = OpResult(abs, wr[t].op)

\* if _, exists := current[hostname]; !exists { return }
DoCheckExists(t) ==
    /\ Instr(t) = "checkExists"
    /\ IF wr[t].h \in DOMAIN wr[t].curData
       THEN wr' = [wr EXCEPT ![t].pc = @ + 1] /\ UNCHANGED abs
       ELSE ReturnEarly(t)
    /\ UNCHANGED <<dataPtr, metaPtr, mu, rd, calls, writtenIps, othersConc>>

\* the LWW check against the loaded metadata
DoCheckLWW(t) ==
    /\ Instr(t) = "checkLWW"
    /\ IF /\ wr[t].h \in DOMAIN wr[t].curMeta
          /\ ExistingWins(wr[t].curMeta[wr[t].h], wr[t].op.ts, wr[t].op.node)
       THEN ReturnEarly(t)
       ELSE wr' = [wr EXCEPT ![t].pc = @ + 1] /\ UNCHANGED abs
    /\ UNCHANGED <<dataPtr, metaPtr, mu, rd, calls, writtenIps, othersConc>>

\* goroutine t writes m to its new data map: once that map has been stored
\* it is the map the atomic.Value and the readers that loaded it hold
WriteNewData(t, m) ==
    /\ wr' = [wr EXCEPT ![t].pc = @ + 1, ![t].newData = m]
    /\ dataPtr' = IF wr[t].pub THEN m ELSE dataPtr
    /\ rd' = IF wr[t].pub /\ rd.pc = "index" /\ rd.alias = t
             THEN [rd EXCEPT !.snap = m] ELSE rd

\* newData := make(map[string]string, ...)
DoMakeData(t) ==
    /\ Instr(t) = "makeData"
    /\ wr' = [wr EXCEPT ![t].pc = @ + 1, ![t].newData = EmptyMap,
                        ![t].pub = FALSE]
    /\ UNCHANGED <<dataPtr, metaPtr, mu, rd, calls, abs, writtenIps, othersConc>>

\* for k, v := range current { newData[k] = v }
DoCopyData(t) ==
    /\ Instr(t) = "copyData"
    /\ WriteNewData(t, [k \in DOMAIN wr[t].newData \cup DOMAIN wr[t].curData |->
                          IF k \in DOMAIN wr[t].curData THEN wr[t].curData[k]
                          ELSE wr[t].newData[k]])
    /\ UNCHANGED <<metaPtr, mu, calls, abs, writtenIps, othersConc>>

\* for k, v := range current { if k != hostname { newData[k] = v } }
DoCopyDataExcept(t) ==
    /\ Instr(t) = "copyDataExcept"
    /\ WriteNewData(t, [k \in DOMAIN wr[t].newData
                              \cup (DOMAIN wr[t].curData \ {wr[t].h}) |->
                          IF k \in DOMAIN wr[t].curData \ {wr[t].h}
                          THEN wr[t].curData[k] ELSE wr[t].newData[k]])
    /\ UNCHANGED <<metaPtr, mu, calls, abs, writtenIps, othersConc>>

\* newData[hostname] = ip
DoSetData(t) ==
    /\ Instr(t) = "setData"
    /\ WriteNewData(t, MapPut(wr[t].newData, wr[t].h, wr[t].op.ip))
    /\ UNCHANGED <<metaPtr, mu, calls, abs, writtenIps, othersConc>>

\* newMeta := make(map[string]RecordMeta, ...)
DoMakeMeta(t) ==
    /\ Instr(t) = "makeMeta"
    /\ wr' = [wr EXCEPT ![t].pc = @ + 1, ![t].newMeta = EmptyMap]
    /\ UNCHANGED <<dataPtr, metaPtr, mu, rd, calls, abs, writtenIps, othersConc>>

\* for k, v := range currentMeta { newMeta[k] = v }
DoCopyMeta(t) ==
    /\ Instr(t) = "copyMeta"
    /\ wr' = [wr EXCEPT ![t].pc = @ + 1, ![t].newMeta = wr[t].curMeta]
    /\ UNCHANGED <<dataPtr, metaPtr, mu, rd, calls, abs, writtenIps, othersConc>>

\* for k, v := range currentMeta { if k != hostname { newMeta[k] = v } }
DoCopyMetaExcept(t) ==
    /\ Instr(t) = "copyMetaExcept"
    /\ wr' = [wr EXCEPT ![t].pc = @ + 1,
                        ![t].newMeta = MapDel(wr[t].curMeta, wr[t].h)]
    /\ UNCHANGED <<dataPtr, metaPtr, mu, rd, calls, abs, writtenIps, othersConc>>

\* newMeta[hostname] = RecordMeta{timestamp, nodeID}
DoSetMeta(t) ==
    /\ Instr(t) = "setMeta"
    /\ wr' = [wr EXCEPT ![t].pc = @ + 1,
                        ![t].newMeta = MapPut(wr[t].newMeta, wr[t].h,
                                   RecordMeta(wr[t].op.ts, wr[t].op.node))]
    /\ UNCHANGED <<dataPtr, metaPtr, mu, rd, calls, abs, writtenIps, othersConc>>

\* r.data.Store(newData): the call takes effect for Lookup
DoStoreData(t) ==
    /\ Instr(t) = "storeData"
    /\ dataPtr' = wr[t].newData
    /\ wr' = [wr EXCEPT ![t].pc = @ + 1, ![t].pub = TRUE]
    /\ abs' = OpResult(abs, wr[t].op)
    /\ writtenIps' =
         IF wr[t].op.kind \in {"Add", "AddWithMeta"}
         THEN [writtenIps EXCEPT ![wr[t].h] = @ \cup {wr[t].op.ip}]
         ELSE writtenIps
    /\ UNCHANGED <<metaPtr, mu, rd, calls, othersConc>>

\* r.meta.Store(newMeta)
DoStoreMeta(t) ==
    /\ Instr(t) = "storeMeta"
    /\ metaPtr' = wr[t].newMeta
    /\ wr' = [wr EXCEPT ![t].pc = @ + 1]
    /\ UNCHANGED <<dataPtr, mu, rd, calls, abs, writtenIps, othersConc>>

\* the deferred r.mu.Unlock(); the method returns
DoUnlock(t) ==
    /\ Instr(t) = "unlock"
    /\ mu' = IF mu = t THEN 0 ELSE mu
    /\ wr' = [wr EXCEPT ![t] = WIdle]
    /\ rd' = IF rd.pc = "index" /\ rd.alias = t THEN [rd EXCEPT !.alias = 0]
             ELSE rd
    /\ UNCHANGED <<dataPtr, metaPtr, calls, abs, writtenIps, othersConc>>

\* a reader calls Lookup(h)
LookupBegin(h) ==
    /\ rd.pc \in {"idle", "done"}
    /\ rd' = [pc |-> "load", host |-> ToLower(h)]
    /\ UNCHANGED <<dataPtr, metaPtr, mu, wr, calls, abs, writtenIps, othersConc>>

\* a mutated Lookup that takes the writers' mutex for its load
LookupLoadLocked ==
    /\ rd.pc = "load"
    /\ mu = 0
    /\ rd' = [pc |-> "index", host |-> rd.host, snap |-> dataPtr,
              snap0 |-> abs.data, alias |-> 0]
    /\ UNCHANGED <<dataPtr, metaPtr, mu, wr, calls, abs, writtenIps, othersConc>>

\* current := r.data.Load(); snap0 records the store the completed
\* publications have produced at this moment
LookupLoad ==
    /\ rd.pc = "load"
    /\ rd' = [pc |-> "index", host |-> rd.host, snap |-> dataPtr,
              snap0 |-> abs.data,
              alias |-> IF \E t \in Writers : wr[t].pc > 0 /\ wr[t].pub
                        THEN CHOOSE t \in Writers : wr[t].pc > 0 /\ wr[t].pub
                        ELSE 0]
    /\ UNCHANGED <<dataPtr, metaPtr, mu, wr, calls, abs, writtenIps, othersConc>>

\* ip, found = current[hostname]; return
LookupIndex ==
    /\ rd.pc = "index"
    /\ rd' = [pc |-> "done", host |-> rd.host,
              res |-> Lookup([data |-> rd.snap, meta |-> EmptyMap], rd.host)]
    /\ UNCHANGED <<dataPtr, metaPtr, mu, wr, calls, abs, writtenIps, othersConc>>

NextConc ==
    \/ \E t \in Writers : \E op \in ConcOps(t) : WBegin(t, op)
    \/ \E t \in Writers : DoLock(t)
    \/ \E t \in Writers : DoLoadData(t)
    \/ \E t \in Writers : DoLoadMeta(t)
    \/ \E t \in Writers : DoCheckExists(t)
    \/ \E t \in Writers : DoCheckLWW(t)
    \/ \E t \in Writers : DoMakeData(t)
    \/ \E t \in Writers : DoCopyData(t)
    \/ \E t \in Writers : DoCopyDataExcept(t)
    \/ \E t \in Writers : DoSetData(t)
    \/ \E t \in Writers : DoMakeMeta(t)
    \/ \E t \in Writers : DoCopyMeta(t)
    \/ \E t \in Writers : DoCopyMetaExcept(t)
    \/ \E t \in Writers : DoSetMeta(t)
    \/ \E t \in Writers : DoStoreData(t)
    \/ \E t \in Writers : DoStoreMeta(t)
    \/ \E t \in Writers : DoUnlock(t)
    \/ \E h \in ConcHosts \cup {HostA} : LookupBegin(h)
    \/ LookupLoad
    \/ LookupIndex

SpecConc == InitConc /\ [][NextConc]_vars

(***************************************************************************)
(* The Docker watcher.                                                     *)
(***************************************************************************)
\* events handled and not yet read from the event stream
MaxQueue == 2

Comma == 44
Space == 32

\* strings.Split(value, ",")
RECURSIVE SplitComma(_)
SplitComma(s) ==
    IF \E i \in DOMAIN s : s[i] = Comma
    THEN LET i == CHOOSE k \in DOMAIN s :
                    s[k] = Comma /\ \A j \in 1..(k - 1) : s[j] # Comma
         IN  <<SubSeq(s, 1, i - 1)>> \o SplitComma(SubSeq(s, i + 1, Len(s)))
    ELSE <<s>>

\* strings.TrimSpace on ASCII white space
IsSpace(c) == c \in {Space, 9, 10, 11, 12, 13}
RECURSIVE TrimSpace(_)
TrimSpace(s) ==
    IF s = << >> THEN s
    ELSE IF IsSpace(s[1]) THEN TrimSpace(Tail(s))
    ELSE IF IsSpace(s[Len(s)]) THEN TrimSpace(SubSeq(s, 1, Len(s) - 1))
    ELSE s

SeqToSet(s) == {s[i] : i \in DOMAIN s}

\* the default label names of setup.go, in order
WatchLabels == <<"coredns.host.name", "joyride.host.name">>

\* the hostnames of one label value appended to acc, blanks and repeats skipped
RECURSIVE ExtractParts(_, _)
ExtractParts(acc, parts) ==
    IF parts = << >> THEN acc
    ELSE LET hostname == TrimSpace(Head(parts)) IN
         IF hostname # EmptyString /\ hostname \notin SeqToSet(acc)
         THEN ExtractParts(Append(acc, hostname), Tail(parts))
         ELSE ExtractParts(acc, Tail(parts))

RECURSIVE ExtractLabels(_, _, _)
ExtractLabels(acc, names, labels) ==
    IF names = << >> THEN acc
    ELSE IF Head(names) \in DOMAIN labels
    THEN ExtractLabels(ExtractParts(acc, SplitComma(labels[Head(names)])),
                       Tail(names), labels)
    ELSE ExtractLabels(acc, Tail(names), labels)

\* DockerWatcher.extractHostnames
ExtractHostnames(labels) == ExtractLabels(<< >>, WatchLabels, labels)

RECURSIVE RemoveAll(_, _)
RemoveAll(r, hs) ==
    IF hs = << >> THEN r ELSE RemoveAll(Remove(r, Head(hs)), Tail(hs))

RECURSIVE AddAll(_, _, _)
AddAll(r, hs, ip) ==
    IF hs = << >> THEN r ELSE AddAll(Add(r, Head(hs), ip), Tail(hs), ip)

\* a mutated updateContainer that adds every new hostname again
UpdateContainerAddAll(cs, r, id, newHostnames, hostIP) ==
    LET oldHostnames == IF id \in DOMAIN cs THEN cs[id] ELSE << >>
        removed == SelectSeq(oldHostnames,
                             LAMBDA h : h \notin SeqToSet(newHostnames))
    IN  [containers |-> MapPut(cs, id, newHostnames),
         rec |-> AddAll(RemoveAll(r, removed), newHostnames, hostIP),
         removed |-> removed, added |-> newHostnames]

\* DockerWatcher.updateContainer on (tracker, store): the new tracker and
\* store, and the hostnames removed and added, in callback order
UpdateContainer(cs, r, id, newHostnames, hostIP) ==
    LET oldHostnames == IF id \in DOMAIN cs THEN cs[id] ELSE << >>
        removed == SelectSeq(oldHostnames,
                             LAMBDA h : h \notin SeqToSet(newHostnames))
        added == SelectSeq(newHostnames,
                           LAMBDA h : h \notin SeqToSet(oldHostnames))
    IN  [containers |-> MapPut(cs, id, newHostnames),
         rec |-> AddAll(RemoveAll(r, removed), added, hostIP),
         removed |-> removed, added |-> added]

\* a mutated handleContainerStop that keeps the tracker entry
HandleContainerStopKeepEntry(cs, r, id) ==
    IF id \in DOMAIN cs
    THEN [containers |-> cs, rec |-> RemoveAll(r, cs[id]),
          removed |-> cs[id]]
    ELSE [containers |-> cs, rec |-> r, removed |-> << >>]

\* DockerWatcher.handleContainerStop on (tracker, store)
HandleContainerStop(cs, r, id) ==
    IF id \in DOMAIN cs
    THEN [containers |-> MapDel(cs, id), rec |-> RemoveAll(r, cs[id]),
          removed |-> cs[id]]
    ELSE [containers |-> cs, rec |-> r, removed |-> << >>]

\* the first loop of syncContainers: updateContainer for every listed
\* container with hostnames; list is a sequence of [ID, Labels]
RECURSIVE SyncUpdate(_, _, _, _)
SyncUpdate(cs, r, list, hostIP) ==
    IF list = << >> THEN [containers |-> cs, rec |-> r]
    ELSE LET c == Head(list)
             hostnames == ExtractHostnames(c.Labels)
             u == UpdateContainer(cs, r, c.ID, hostnames, hostIP)
         IN  IF Len(hostnames) > 0
             THEN SyncUpdate(u.containers, u.rec, Tail(list), hostIP)
             ELSE SyncUpdate(cs, r, Tail(list), hostIP)

\* the second loop of syncContainers: drop the tracked containers not seen
RECURSIVE SyncRemove(_, _, _)
SyncRemove(cs, r, unseen) ==
    IF unseen = {} THEN [containers |-> cs, rec |-> r]
    ELSE LET id == CHOOSE x \in unseen : TRUE IN
         SyncRemove(MapDel(cs, id), RemoveAll(r, cs[id]), unseen \ {id})

\* DockerWatcher.syncContainers on (tracker, store)
SyncContainers(cs, r, list, hostIP) ==
    LET seen == {list[i].ID : i \in
                    {k \in DOMAIN list :
                        Len(ExtractHostnames(list[k].Labels)) > 0}}
        u == SyncUpdate(cs, r, list, hostIP)
    IN  SyncRemove(u.containers, u.rec, DOMAIN u.containers \ seen)

(***************************************************************************)
(* SpecWatcher: one watcher without a callback (clustering disabled).      *)
(* The runtime starts and stops containers and reports it on the event     *)
(* stream; the watcher handles the events one by one and re-synchronises   *)
(* on every new connection.                                                *)
(***************************************************************************)
ContainerIDs == {"c1", "c2"}
HostIP == Ip1

\* label values: "a", "A", "b", "a, b" and " ,"
ValA == <<97>>
ValUpperA == <<65>>
ValB == <<98>>
ValAB == <<97, Comma, Space, 98>>
ValBlank == <<Space, Comma>>

\* the label sets a container can carry
LabelSets ==
    {EmptyMap,
     [l \in {"coredns.host.name"} |-> ValA],
     [l \in {"coredns.host.name"} |-> ValUpperA],
     [l \in {"joyride.host.name"} |-> ValB],
     [l \in {"coredns.host.name", "joyride.host.name"} |->
        IF l = "coredns.host.name" THEN ValA ELSE ValAB],
     [l \in {"coredns.host.name"} |-> ValBlank]}

InitWatcher ==
    /\ docker = EmptyMap
    /\ events = << >>
    /\ containers = EmptyMap
    /\ wrecords = NewRecords
    /\ OrderIdle
    /\ StoreIdle
    /\ ConcIdle
    /\ ClusterIdle
    /\ MergeIdle
    /\ GossipIdle
    /\ DelegateIdle
    /\ ManagerIdle
    /\ TrackerIdle
    /\ HandlerIdle
    /\ LoopIdle
    /\ LifeIdle
    /\ TeardownIdle
    /\ LockIdle

\* the runtime starts a container
DockerRun(id, labels) ==
    /\ id \notin DOMAIN docker
    /\ Len(events) < MaxQueue
    /\ docker' = MapPut(docker, id, labels)
    /\ events' = Append(events, [Action |-> "start", ID |-> id])
    /\ UNCHANGED <<containers, wrecords, othersWatch>>

\* the runtime stops and removes a container, or the container dies
DockerStop(id, action) ==
    /\ id \in DOMAIN docker
    /\ Len(events) < MaxQueue
    /\ docker' = MapDel(docker, id)
    /\ events' = Append(events, [Action |-> action, ID |-> id])
    /\ UNCHANGED <<containers, wrecords, othersWatch>>

\* DockerWatcher.handleContainerStart: inspect, extract, update
HandleContainerStart(cs, r, id) ==
    IF id \notin DOMAIN docker THEN [containers |-> cs, rec |-> r]
    ELSE LET hostnames == ExtractHostnames(docker[id]) IN
         IF Len(hostnames) > 0
         THEN LET u == UpdateContainer(cs, r, id, hostnames, HostIP)
              IN  [containers |-> u.containers, rec |-> u.rec]
         ELSE [containers |-> cs, rec |-> r]

\* watchEvents reads one event; handleEvent dispatches it
HandleEvent ==
    /\ events # << >>
    /\ LET e == Head(events)
           res == IF e.Action = "start"
                  THEN HandleContainerStart(containers, wrecords, e.ID)
                  ELSE LET s == HandleContainerStop(containers, wrecords, e.ID)
                       IN  [containers |-> s.containers, rec |-> s.rec]
       IN  /\ containers' = res.containers
           /\ wrecords' = res.rec
    /\ events' = Tail(events)
    /\ UNCHANGED <<docker, othersWatch>>

\* the event stream fails and the watcher connects again: the events not
\* yet read are lost, and syncContainers runs on the list of running
\* containers, in any order
Reconnect(list) ==
    /\ Len(list) = Cardinality(DOMAIN docker)
    /\ {list[i] : i \in DOMAIN list} =
         {[ID |-> id, Labels |-> docker[id]] : id \in DOMAIN docker}
    /\ LET res == SyncContainers(containers, wrecords, list, HostIP)
       IN  /\ containers' = res.containers
           /\ wrecords' = res.rec
    /\ events' = << >>
    /\ UNCHANGED <<docker, othersWatch>>

\* the orders in which ContainerList can report the running containers
Listings ==
    LET cs == {[ID |-> id, Labels |-> docker[id]] : id \in DOMAIN docker}
    IN  {<< >>} \cup {<<c>> : c \in cs} \cup {<<c, d>> : c, d \in cs}

NextWatcher ==
    \/ \E id \in ContainerIDs, labels \in LabelSets : DockerRun(id, labels)
    \/ \E id \in ContainerIDs, action \in {"stop", "die"} :
          DockerStop(id, action)
    \/ HandleEvent
    \/ \E list \in Listings : Reconnect(list)

SpecWatcher == InitWatcher /\ [][NextWatcher]_vars

(***************************************************************************)
(* Messages, the gossip delegate and the cluster manager.                  *)
(***************************************************************************)
msgChanBufferSize == 256
\* the capacity the incoming channel is explored with
MaxChan == 1

Min(a, b) == IF a < b THEN a ELSE b
ChanCap == Min(msgChanBufferSize, MaxChan)

\* RecordMessage.Encode: the JSON object with the keys h, i, a, t, n
EncodeRecordMessage(m) ==
    [h |-> m.Hostname, i |-> m.IP, a |-> m.Action, t |-> m.Timestamp,
     n |-> m.NodeID]

\* byte strings that are no encoding of a message or a state: the empty
\* (or nil) slice, bytes that are not JSON, and the JSON object {}
EmptyBytes == [len |-> 0]
InvalidJSON == [invalid |-> TRUE]
EmptyObject == [x \in {} |-> 0]

\* a mutated decoder that accepts any bytes
UnmarshalNeverFails(d) == FALSE

\* json.Unmarshal returns an error
UnmarshalFails(d) == d = EmptyBytes \/ d = InvalidJSON

\* the value of a JSON key, or the zero value of the field when it is absent
JSONField(d, key, zero) == IF key \in DOMAIN d THEN d[key] ELSE zero

\* DecodeRecordMessage on bytes json.Unmarshal accepts
DecodeRecordMessage(d) ==
    RecordMessage(JSONField(d, "h", EmptyString), JSONField(d, "i", ""),
                  JSONField(d, "a", 0), JSONField(d, "t", 0),
                  JSONField(d, "n", EmptyString))

RecordEntry(ip, ts, node) == [IP |-> ip, Timestamp |-> ts, NodeID |-> node]

\* Records.GetAllWithMeta: the entries of the data map, each with its
\* metadata or with the zero metadata
GetAllWithMeta(r) ==
    [h \in DOMAIN r.data |->
        IF h \in DOMAIN r.meta
        THEN RecordEntry(r.data[h], r.meta[h].Timestamp, r.meta[h].NodeID)
        ELSE RecordEntry(r.data[h], 0, EmptyString)]

\* FullState.Encode: the JSON object with the keys node and records
EncodeFullState(st) ==
    [node |-> st.NodeID,
     records |-> [h \in DOMAIN st.Records |->
                    [i |-> st.Records[h].IP, t |-> st.Records[h].Timestamp,
                     n |-> st.Records[h].NodeID]]]

\* DecodeFullState on bytes json.Unmarshal accepts
DecodeFullState(d) ==
    LET entries == JSONField(d, "records", EmptyMap) IN
    [NodeID |-> JSONField(d, "node", EmptyString),
     Records |-> [h \in DOMAIN entries |->
                    RecordEntry(JSONField(entries[h], "i", ""),
                                JSONField(entries[h], "t", 0),
                                JSONField(entries[h], "n", EmptyString))]]

\* ClusterDelegate.LocalState
LocalState(r, nodeID) ==
    EncodeFullState([NodeID |-> nodeID, Records |-> GetAllWithMeta(r)])

RECURSIVE MergeEntries(_, _, _)
MergeEntries(r, entries, hs) ==
    IF hs = {} THEN r
    ELSE LET h == CHOOSE x \in hs : TRUE
             msg == RecordMessage(h, entries[h].IP, RecordActionAdd,
                                  entries[h].Timestamp, entries[h].NodeID)
         IN  MergeEntries(ApplyMessage(r, msg).rec, entries, hs \ {h})

\* ClusterDelegate.MergeRemoteState: every entry applied as an add
MergeRemoteState(r, buf) ==
    IF buf = EmptyBytes THEN r
    ELSE IF UnmarshalFails(buf) THEN r
    ELSE LET state == DecodeFullState(buf)
         IN  MergeEntries(r, state.Records, DOMAIN state.Records)

\* a mutated NotifyMsg that sends whether or not the channel has room
NotifyMsgUnbounded(ch, data) ==
    IF data = EmptyBytes THEN ch
    ELSE IF UnmarshalFails(data) THEN ch
    ELSE Append(ch, DecodeRecordMessage(data))

\* a mutated NotifyMsg that discards every message
NotifyMsgDiscard(ch, data) == ch

\* ClusterDelegate.NotifyMsg on the channel: a non-blocking send
NotifyMsg(ch, data) ==
    IF data = EmptyBytes THEN ch
    ELSE IF UnmarshalFails(data) THEN ch
    ELSE IF Len(ch) < ChanCap THEN Append(ch, DecodeRecordMessage(data))
    ELSE ch

(***************************************************************************)
(* SpecCluster: two nodes, each with a watcher wired to its cluster        *)
(* manager.  A container event runs the watcher's store operations and     *)
(* leaves the callbacks to make; each callback is a Notify call of two     *)
(* steps, between which the other goroutines of the node can run.          *)
(***************************************************************************)
Nodes == {1, 2}
NodeName(n) == IF n = 1 THEN Node1 ELSE Node2
NodeIP(n) == IF n = 1 THEN Ip1 ELSE Ip2
ClusterContainer == "c1"

\* the label sets a container of the cluster can carry
ClusterLabelSets ==
    {[l \in {"coredns.host.name"} |-> ValA],
     [l \in {"joyride.host.name"} |-> ValB]}

NoNotify == [pc |-> "idle"]

InitCluster ==
    /\ stores = [n \in Nodes |-> NewRecords]
    /\ tracker = [n \in Nodes |-> EmptyMap]
    /\ pending = [n \in Nodes |-> << >>]
    /\ notify = [n \in Nodes |-> NoNotify]
    /\ broadcasts = [n \in Nodes |-> {}]
    /\ msgChan = [n \in Nodes |-> << >>]
    /\ started = [n \in Nodes |-> FALSE]
    /\ lastTs = [n \in Nodes |-> -1]
    /\ synced = FALSE
    /\ localLog = [n \in Nodes |-> EmptyMap]
    /\ lost = {}
    /\ OrderIdle
    /\ StoreIdle
    /\ ConcIdle
    /\ WatchIdle
    /\ MergeIdle
    /\ GossipIdle
    /\ DelegateIdle
    /\ ManagerIdle
    /\ TrackerIdle
    /\ HandlerIdle
    /\ LoopIdle
    /\ LifeIdle
    /\ TeardownIdle
    /\ LockIdle

\* ClusterManager.Start: memberlist created, processMessages running
ManagerStart(n) ==
    /\ ~started[n]
    /\ started' = [started EXCEPT ![n] = TRUE]
    /\ UNCHANGED <<stores, tracker, pending, notify, broadcasts, msgChan,
                   lastTs, synced, localLog, lost, othersCluster>>

\* the callbacks of one watcher handler: the removed hostnames, then the
\* added ones, all with the one timestamp read after the store operations
Callbacks(removed, added, ip, ts) ==
    [i \in 1..Len(removed) |->
        [hostname |-> removed[i], ip |-> "", added |-> FALSE,
         timestamp |-> ts]]
    \o [i \in 1..Len(added) |->
        [hostname |-> added[i], ip |-> ip, added |-> TRUE, timestamp |-> ts]]

\* the watcher goroutine is between two handlers
WatcherReady(n) ==
    /\ started[n]
    /\ pending[n] = << >>
    /\ notify[n] = NoNotify

\* handleContainerStart up to the callbacks
ContainerStart(n, labels, ts) ==
    /\ WatcherReady(n)
    /\ ClusterContainer \notin DOMAIN tracker[n]
    /\ ts > lastTs[n]
    /\ LET hostnames == ExtractHostnames(labels)
           u == UpdateContainer(tracker[n], stores[n], ClusterContainer,
                                hostnames, NodeIP(n))
       IN  /\ Len(hostnames) > 0
           /\ tracker' = [tracker EXCEPT ![n] = u.containers]
           /\ stores' = [stores EXCEPT ![n] = u.rec]
           /\ pending' = [pending EXCEPT ![n] =
                            Callbacks(u.removed, u.added, NodeIP(n), ts)]
    /\ lastTs' = [lastTs EXCEPT ![n] = ts]
    /\ synced' = FALSE
    /\ UNCHANGED <<notify, broadcasts, msgChan, started, localLog, lost,
                   othersCluster>>

\* handleContainerStop up to the callbacks
ContainerStop(n, ts) ==
    /\ WatcherReady(n)
    /\ ClusterContainer \in DOMAIN tracker[n]
    /\ ts > lastTs[n]
    /\ LET u == HandleContainerStop(tracker[n], stores[n], ClusterContainer)
       IN  /\ tracker' = [tracker EXCEPT ![n] = u.containers]
           /\ stores' = [stores EXCEPT ![n] = u.rec]
           /\ pending' = [pending EXCEPT ![n] =
                            Callbacks(u.removed, << >>, NodeIP(n), ts)]
    /\ lastTs' = [lastTs EXCEPT ![n] = ts]
    /\ synced' = FALSE
    /\ UNCHANGED <<notify, broadcasts, msgChan, started, localLog, lost,
                   othersCluster>>

\* the message NotifyRecordAdd or NotifyRecordRemove builds for a callback
NotifyMessage(n, cb) ==
    IF cb.added
    THEN RecordMessage(cb.hostname, cb.ip, RecordActionAdd, cb.timestamp,
                       NodeName(n))
    ELSE RecordMessage(cb.hostname, "", RecordActionRemove, cb.timestamp,
                       NodeName(n))

\* NotifyRecordAdd / NotifyRecordRemove, first half:
\* cm.records.ApplyMessage(msg)
NotifyApply(n) ==
    /\ pending[n] # << >>
    /\ notify[n] = NoNotify
    /\ LET msg == NotifyMessage(n, Head(pending[n]))
       IN  /\ stores' = [stores EXCEPT ![n] = ApplyMessage(@, msg).rec]
           /\ notify' = [notify EXCEPT ![n] = [pc |-> "applied", msg |-> msg]]
           /\ localLog' = [localLog EXCEPT ![n] =
                  MapPut(@, ToLower(msg.Hostname),
                         [action |-> msg.Action, timestamp |-> msg.Timestamp])]
    /\ synced' = FALSE
    /\ UNCHANGED <<tracker, pending, broadcasts, msgChan, started, lastTs,
                   lost, othersCluster>>

\* NotifyRecordAdd / NotifyRecordRemove, second half:
\* cm.delegate.BroadcastRecord(msg), and the callback returns
NotifyBroadcast(n) ==
    /\ notify[n].pc = "applied"
    /\ broadcasts' = [broadcasts EXCEPT ![n] =
          @ \cup {[data |-> EncodeRecordMessage(notify[n].msg),
                   sent |-> FALSE]}]
    /\ notify' = [notify EXCEPT ![n] = NoNotify]
    /\ pending' = [pending EXCEPT ![n] = Tail(@)]
    /\ UNCHANGED <<stores, tracker, msgChan, started, lastTs, synced,
                   localLog, lost, othersCluster>>

\* memberlist takes a queued broadcast with GetBroadcasts and sends it to
\* the peer, where NotifyMsg receives it; the broadcast stays queued for
\* retransmission
Transmit(n, m, b) ==
    /\ started[n] /\ started[m] /\ n # m
    /\ b \in broadcasts[n]
    /\ msgChan' = [msgChan EXCEPT ![m] = NotifyMsg(@, b.data)]
    /\ broadcasts' = [broadcasts EXCEPT ![n] =
          (@ \ {b}) \cup {[data |-> b.data,
                           sent |-> b.sent \/ Len(msgChan[m]) < ChanCap]}]
    /\ UNCHANGED <<stores, tracker, pending, notify, started, lastTs, synced,
                   localLog, lost, othersCluster>>

\* the broadcast leaves the queue (broadcast.Finished); one that never
\* entered the peer's channel is lost
Finished(n, b) ==
    /\ started[n]
    /\ b \in broadcasts[n]
    /\ broadcasts' = [broadcasts EXCEPT ![n] = @ \ {b}]
    /\ lost' = IF b.sent THEN lost ELSE lost \cup {b.data}
    /\ UNCHANGED <<stores, tracker, pending, notify, msgChan, started, lastTs,
                   synced, localLog, othersCluster>>

\* processMessages: one message from msgChan applied
ProcessMessage(n) ==
    /\ started[n]
    /\ msgChan[n] # << >>
    /\ stores' = [stores EXCEPT ![n] = ApplyMessage(@, Head(msgChan[n])).rec]
    /\ msgChan' = [msgChan EXCEPT ![n] = Tail(@)]
    /\ synced' = FALSE
    /\ UNCHANGED <<tracker, pending, notify, broadcasts, started, lastTs,
                   localLog, lost, othersCluster>>

\* no local change is under way on any node
AtRest ==
    \A n \in Nodes : pending[n] = << >> /\ notify[n] = NoNotify

\* a push/pull between i and j: each side's LocalState is taken, then each
\* side merges the other's
PushPull(i, j) ==
    /\ started[i] /\ started[j] /\ i # j
    /\ LET si == LocalState(stores[i], NodeName(i))
           sj == LocalState(stores[j], NodeName(j))
       IN  stores' = [stores EXCEPT ![i] = MergeRemoteState(@, sj),
                                    ![j] = MergeRemoteState(@, si)]
    /\ synced' = AtRest
    /\ UNCHANGED <<tracker, pending, notify, broadcasts, msgChan, started,
                   lastTs, localLog, lost, othersCluster>>

NextCluster ==
    \/ \E n \in Nodes : ManagerStart(n)
    \/ \E n \in Nodes, labels \in ClusterLabelSets, ts \in Timestamps :
          ContainerStart(n, labels, ts)
    \/ \E n \in Nodes, ts \in Timestamps : ContainerStop(n, ts)
    \/ \E n \in Nodes : NotifyApply(n)
    \/ \E n \in Nodes : NotifyBroadcast(n)
    \/ \E n, m \in Nodes : \E b \in broadcasts[n] : Transmit(n, m, b)
    \/ \E n \in Nodes : \E b \in broadcasts[n] : Finished(n, b)
    \/ \E n \in Nodes : ProcessMessage(n)
    \/ \E i, j \in Nodes : PushPull(i, j)

SpecCluster == InitCluster /\ [][NextCluster]_vars

(***************************************************************************)
(* SpecMerge: the store of one delegate.  The watcher adds and removes     *)
(* without a stamp, deltas are applied with their stamps, and              *)
(* MergeRemoteState is called with the bytes a peer sent.                  *)
(***************************************************************************)
MergeHosts == {HostA, HostB}
MergeNodes == {Node1, Node2}

\* the deltas applied to the store, carrying the local ip
MergeMessages ==
    {RecordMessage(h, Ip1, RecordActionAdd, t, n) :
        h \in MergeHosts, t \in Timestamps, n \in MergeNodes}
    \cup {RecordMessage(h, "", RecordActionRemove, t, n) :
        h \in MergeHosts, t \in Timestamps, n \in MergeNodes}

\* the entries a peer's GetAllWithMeta can hold for a hostname: stamped
\* ones, and the zero stamp of a record that has no metadata
SnapshotEntries ==
    {RecordEntry(Ip2, t, n) : t \in Timestamps, n \in MergeNodes}
    \cup {RecordEntry(Ip2, 0, EmptyString)}

\* the bytes a peer's LocalState can produce, and bytes that are no state
Snapshots ==
    {EncodeFullState([NodeID |-> Node2, Records |-> f]) :
        f \in UNION {[hs -> SnapshotEntries] : hs \in SUBSET MergeHosts}}
    \cup {EmptyBytes, InvalidJSON, EmptyObject}

InitMerge ==
    /\ mstore = NewRecords
    /\ mcall = NoCall
    /\ OrderIdle
    /\ StoreIdle
    /\ ConcIdle
    /\ WatchIdle
    /\ ClusterIdle
    /\ GossipIdle
    /\ DelegateIdle
    /\ ManagerIdle
    /\ TrackerIdle
    /\ HandlerIdle
    /\ LoopIdle
    /\ LifeIdle
    /\ TeardownIdle
    /\ LockIdle

\* the watcher's Records.Add
MergeLocalAdd(h) ==
    /\ mstore' = Add(mstore, h, Ip1)
    /\ mcall' = [op |-> "Add", hostname |-> h]
    /\ UNCHANGED othersMerge

\* the watcher's Records.Remove
MergeLocalRemove(h) ==
    /\ mstore' = Remove(mstore, h)
    /\ mcall' = [op |-> "Remove", hostname |-> h]
    /\ UNCHANGED othersMerge

\* a delta applied by NotifyRecordAdd, NotifyRecordRemove or processMessages
MergeApply(msg) ==
    /\ mstore' = ApplyMessage(mstore, msg).rec
    /\ mcall' = [op |-> "ApplyMessage", msg |-> msg]
    /\ UNCHANGED othersMerge

\* memberlist hands the peer's state to MergeRemoteState
CallMergeRemoteState(buf) ==
    /\ mstore' = MergeRemoteState(mstore, buf)
    /\ mcall' = [op |-> "MergeRemoteState", buf |-> buf, before |-> mstore]
    /\ UNCHANGED othersMerge

NextMerge ==
    \/ \E h \in MergeHosts : MergeLocalAdd(h)
    \/ \E h \in MergeHosts : MergeLocalRemove(h)
    \/ \E msg \in MergeMessages : MergeApply(msg)
    \/ \E buf \in Snapshots : CallMergeRemoteState(buf)

SpecMerge == InitMerge /\ [][NextMerge]_vars

(***************************************************************************)
(* SpecGossip: two nodes that have joined, NotifyRecordAdd called on each  *)
(* for one hostname.  SpecGossipFair is the same cluster when every queued *)
(* delta is delivered and the workers keep running.                        *)
(***************************************************************************)
\* NotifyRecordAdd calls per node
MaxEmit == 1

GossipHost == HostA

InitGossip ==
    /\ gstore = [n \in Nodes |-> NewRecords]
    /\ gnotify = [n \in Nodes |-> NoNotify]
    /\ gqueue = [n \in Nodes |-> {}]
    /\ gchan = [n \in Nodes |-> << >>]
    /\ emitted = [n \in Nodes |-> {}]
    /\ gapplied = [n \in Nodes |-> {}]
    /\ OrderIdle
    /\ StoreIdle
    /\ ConcIdle
    /\ WatchIdle
    /\ ClusterIdle
    /\ MergeIdle
    /\ DelegateIdle
    /\ ManagerIdle
    /\ TrackerIdle
    /\ HandlerIdle
    /\ LoopIdle
    /\ LifeIdle
    /\ TeardownIdle
    /\ LockIdle

\* NotifyRecordAdd(hostname, ip, timestamp) up to cm.records.ApplyMessage(msg)
GossipNotifyApply(n, ip, ts) ==
    /\ gnotify[n] = NoNotify
    /\ Cardinality(emitted[n]) < MaxEmit
    /\ LET msg == NotifyMessage(n, [hostname |-> GossipHost, ip |-> ip,
                                    added |-> TRUE, timestamp |-> ts])
       IN  /\ msg \notin emitted[n]
           /\ gstore' = [gstore EXCEPT ![n] = ApplyMessage(@, msg).rec]
           /\ gnotify' = [gnotify EXCEPT ![n] = [pc |-> "applied", msg |-> msg]]
           /\ emitted' = [emitted EXCEPT ![n] = @ \cup {msg}]
    /\ UNCHANGED <<gqueue, gchan, gapplied, othersGossip>>

\* NotifyRecordAdd from cm.delegate.BroadcastRecord(msg) to its return
GossipNotifyBroadcast(n) ==
    /\ gnotify[n].pc = "applied"
    /\ gqueue' = [gqueue EXCEPT ![n] =
          @ \cup {[data |-> EncodeRecordMessage(gnotify[n].msg),
                   sent |-> FALSE]}]
    /\ gnotify' = [gnotify EXCEPT ![n] = NoNotify]
    /\ UNCHANGED <<gstore, gchan, emitted, gapplied, othersGossip>>

\* memberlist sends a queued broadcast to the peer, whose NotifyMsg
\* receives it; the broadcast stays queued for retransmission
GossipTransmit(n, m, b) ==
    /\ n # m
    /\ b \in gqueue[n]
    /\ gchan' = [gchan EXCEPT ![m] = NotifyMsg(@, b.data)]
    /\ gqueue' = [gqueue EXCEPT ![n] =
          (@ \ {b}) \cup {[data |-> b.data,
                           sent |-> b.sent \/ gchan'[m] # gchan[m]]}]
    /\ UNCHANGED <<gstore, gnotify, emitted, gapplied, othersGossip>>

\* the broadcast leaves the queue after it entered the peer's channel
GossipFinished(n, b) ==
    /\ b \in gqueue[n]
    /\ b.sent
    /\ gqueue' = [gqueue EXCEPT ![n] = @ \ {b}]
    /\ UNCHANGED <<gstore, gnotify, gchan, emitted, gapplied, othersGossip>>

\* the broadcast leaves the queue without having entered the peer's channel
GossipLost(n, b) ==
    /\ b \in gqueue[n]
    /\ ~b.sent
    /\ gqueue' = [gqueue EXCEPT ![n] = @ \ {b}]
    /\ UNCHANGED <<gstore, gnotify, gchan, emitted, gapplied, othersGossip>>

\* processMessages: one message from msgChan applied
GossipProcess(n) ==
    /\ gchan[n] # << >>
    /\ gstore' = [gstore EXCEPT ![n] = ApplyMessage(@, Head(gchan[n])).rec]
    /\ gapplied' = [gapplied EXCEPT ![n] = @ \cup {Head(gchan[n])}]
    /\ gchan' = [gchan EXCEPT ![n] = Tail(@)]
    /\ UNCHANGED <<gnotify, gqueue, emitted, othersGossip>>

NextGossipFair ==
    \/ \E n \in Nodes, ts \in Timestamps : GossipNotifyApply(n, NodeIP(n), ts)
    \/ \E n \in Nodes : GossipNotifyBroadcast(n)
    \/ \E n, m \in Nodes : \E b \in gqueue[n] : GossipTransmit(n, m, b)
    \/ \E n \in Nodes : \E b \in gqueue[n] : GossipFinished(n, b)
    \/ \E n \in Nodes : GossipProcess(n)

NextGossip ==
    \/ NextGossipFair
    \/ \E n \in Nodes : \E b \in gqueue[n] : GossipLost(n, b)

SpecGossip == InitGossip /\ [][NextGossip]_vars

\* a Notify call that has started returns, memberlist keeps transmitting
\* what is queued, and the workers keep reading their channels
GossipFairness ==
    /\ \A n \in Nodes : WF_vars(GossipNotifyBroadcast(n))
    /\ \A n \in Nodes : WF_vars(GossipProcess(n))
    /\ \A n, m \in Nodes :
          SF_vars(\E b \in gqueue[n] : ~b.sent /\ GossipTransmit(n, m, b)
                                       /\ gchan'[m] # gchan[m])

SpecGossipFair == InitGossip /\ [][NextGossipFair]_vars /\ GossipFairness

(***************************************************************************)
(* SpecDelegate: one started delegate.  memberlist calls NotifyMsg and     *)
(* MergeRemoteState with whatever bytes arrive; the worker goroutine       *)
(* applies the channel's messages.                                         *)
(***************************************************************************)
\* the bytes NotifyMsg is called with: deltas of the peers, and bytes that
\* are no delta
NotifyInputs ==
    {EncodeRecordMessage(RecordMessage(HostA, Ip2, RecordActionAdd, t, n)) :
        t \in Timestamps, n \in MergeNodes}
    \cup {EncodeRecordMessage(RecordMessage(HostA, "", RecordActionRemove, t, n)) :
        t \in Timestamps, n \in MergeNodes}
    \cup {EmptyBytes, InvalidJSON, EmptyObject}

\* the bytes MergeRemoteState is called with
MergeInputs ==
    {EncodeFullState([NodeID |-> Node2, Records |-> f]) :
        f \in UNION {[hs -> SnapshotEntries] : hs \in SUBSET {HostA}}}
    \cup {EmptyBytes, InvalidJSON, EmptyObject}

InitDelegate ==
    /\ dstore = NewRecords
    /\ dchan = << >>
    /\ dcall = NoCall
    /\ OrderIdle
    /\ StoreIdle
    /\ ConcIdle
    /\ WatchIdle
    /\ ClusterIdle
    /\ MergeIdle
    /\ GossipIdle
    /\ ManagerIdle
    /\ TrackerIdle
    /\ HandlerIdle
    /\ LoopIdle
    /\ LifeIdle
    /\ TeardownIdle
    /\ LockIdle

\* d.NotifyMsg(data)
DelegateNotifyMsg(data) ==
    /\ dchan' = NotifyMsg(dchan, data)
    /\ dcall' = [op |-> "NotifyMsg", data |-> data, store |-> dstore,
                 chan |-> dchan]
    /\ UNCHANGED <<dstore, othersDelegate>>

\* d.MergeRemoteState(buf, join)
DelegateMergeRemoteState(buf) ==
    /\ dstore' = MergeRemoteState(dstore, buf)
    /\ dcall' = [op |-> "MergeRemoteState", data |-> buf, store |-> dstore,
                 chan |-> dchan]
    /\ UNCHANGED <<dchan, othersDelegate>>

\* processMessages: case msg := <-d.msgChan
DelegateProcess ==
    /\ dchan # << >>
    /\ dstore' = ApplyMessage(dstore, Head(dchan)).rec
    /\ dchan' = Tail(dchan)
    /\ dcall' = [op |-> "processMessages", data |-> EmptyBytes,
                 store |-> dstore, chan |-> dchan]
    /\ UNCHANGED othersDelegate

NextDelegate ==
    \/ \E data \in NotifyInputs : DelegateNotifyMsg(data)
    \/ \E buf \in MergeInputs : DelegateMergeRemoteState(buf)
    \/ DelegateProcess

SpecDelegate == InitDelegate /\ [][NextDelegate]_vars

(***************************************************************************)
(* SpecManager: the life cycle of one ClusterManager.  A context made by   *)
(* Start is named by the number of the Start call; created[i] tells        *)
(* whether context i has been cancelled.  The delegate's context is a      *)
(* child of the manager's context of the same Start and has its own        *)
(* cancel function.  memberlist.Create fails while a memberlist of this    *)
(* process holds the port, and may fail for other reasons.                 *)
(***************************************************************************)
MaxStarts == 3
MaxStops == 3

Live == "live"
ManagerCancelled == "cancelled"
DelegateCancelled == "delegate cancelled"

\* ctx.Done() is closed for the manager's context i
ScopeDone(cs, i) == cs[i] = ManagerCancelled

\* ctx.Done() is closed for the delegate's context derived from context i
DelegateDone(cs, i) == cs[i] # Live

InitManager ==
    /\ seeds \in BOOLEAN
    /\ cmScope = 0
    /\ cmMemberlist = 0
    /\ cmDiscovery = 0
    /\ dScope = 0
    /\ created = << >>
    /\ workers = {}
    /\ discLoops = {}
    /\ bound = {}
    /\ leaveCalls = 0
    /\ shutdownCalls = 0
    /\ mlast = NoCall
    /\ OrderIdle
    /\ StoreIdle
    /\ ConcIdle
    /\ WatchIdle
    /\ ClusterIdle
    /\ MergeIdle
    /\ GossipIdle
    /\ DelegateIdle
    /\ TrackerIdle
    /\ HandlerIdle
    /\ LoopIdle
    /\ LifeIdle
    /\ TeardownIdle
    /\ LockIdle

\* cm.Start(ctx)
ManagerStartCall ==
    /\ Len(created) < MaxStarts
    /\ LET id == Len(created) + 1 IN
       /\ cmScope' = id
       /\ created' = Append(created, Live)
       /\ \E createOk \in (IF bound # {} THEN {FALSE} ELSE BOOLEAN) :
            IF ~createOk
            THEN /\ mlast' = [op |-> "Start", err |-> TRUE]
                 /\ UNCHANGED <<cmMemberlist, cmDiscovery, dScope, workers,
                                discLoops, bound>>
            ELSE /\ cmMemberlist' = id
                 /\ bound' = bound \cup {id}
                 /\ dScope' = id
                 /\ workers' = workers \cup {id}
                 /\ IF seeds
                    THEN UNCHANGED <<cmDiscovery, discLoops>>
                    ELSE /\ cmDiscovery' = id
                         /\ \E listening \in BOOLEAN :
                              discLoops' = IF listening
                                           THEN discLoops \cup {id}
                                           ELSE discLoops
                 /\ mlast' = [op |-> "Start", err |-> FALSE]
    /\ UNCHANGED <<seeds, leaveCalls, shutdownCalls, othersManager>>

\* the contexts after cm.cancel() and d.cancel()
StopContexts(cs, scope, dscope) ==
    [i \in DOMAIN cs |->
        IF i = scope THEN ManagerCancelled
        ELSE IF i = dscope /\ cs[i] = Live THEN DelegateCancelled
        ELSE cs[i]]

\* cm.Stop()
ManagerStopCall ==
    /\ shutdownCalls < MaxStops
    /\ created' = StopContexts(created, cmScope, dScope)
    /\ discLoops' = discLoops \ {cmDiscovery}
    \* d.wg.Wait() returns when every worker has seen its context done
    /\ \A w \in workers : DelegateDone(created', w)
    /\ workers' = {}
    /\ IF cmMemberlist # 0
       THEN /\ leaveCalls' = leaveCalls + 1
            /\ shutdownCalls' = shutdownCalls + 1
            /\ bound' = bound \ {cmMemberlist}
            /\ \E shutdownErr \in BOOLEAN :
                 mlast' = [op |-> "Stop", err |-> shutdownErr]
       ELSE /\ mlast' = [op |-> "Stop", err |-> FALSE]
            /\ UNCHANGED <<leaveCalls, shutdownCalls, bound>>
    /\ UNCHANGED <<seeds, cmScope, cmMemberlist, cmDiscovery, dScope,
                   othersManager>>

NextManager ==
    \/ ManagerStartCall
    \/ ManagerStopCall

SpecManager == InitManager /\ [][NextManager]_vars

(***************************************************************************)
(* SpecTracker: the event handlers of one watcher, with or without a       *)
(* callback.  A start event brings the labels ContainerInspect reports     *)
(* for the id; a stop or die event brings the id only.                     *)
(***************************************************************************)
\* the calls made on dw.callback by one handler: none when no callback is set
InvokeCallback(set, removed, added, ip, ts) ==
    IF set THEN Callbacks(removed, added, ip, ts) ELSE << >>

\* the label value "A,b"
ValUpperAB == <<65, Comma, 98>>

\* the label sets ContainerInspect can report
TrackerLabelSets ==
    LabelSets \cup {[l \in {"joyride.host.name"} |-> ValUpperAB]}

InitTracker ==
    /\ tcallback \in BOOLEAN
    /\ tcontainers = EmptyMap
    /\ trecords = NewRecords
    /\ tcall = NoCall
    /\ OrderIdle
    /\ StoreIdle
    /\ ConcIdle
    /\ WatchIdle
    /\ ClusterIdle
    /\ MergeIdle
    /\ GossipIdle
    /\ DelegateIdle
    /\ ManagerIdle
    /\ HandlerIdle
    /\ LoopIdle
    /\ LifeIdle
    /\ TeardownIdle
    /\ LockIdle

\* handleEvent with a start event: handleContainerStart inspects the
\* container and calls updateContainer when it carries hostnames
TrackerStart(id, labels, ts) ==
    LET hostnames == ExtractHostnames(labels)
        u == UpdateContainer(tcontainers, trecords, id, hostnames, HostIP)
    IN  IF Len(hostnames) > 0
        THEN /\ tcontainers' = u.containers
             /\ trecords' = u.rec
             /\ tcall' = [op |-> "update", id |-> id,
                          tracked |-> id \in DOMAIN tcontainers,
                          old |-> IF id \in DOMAIN tcontainers
                                  THEN tcontainers[id] ELSE << >>,
                          new |-> hostnames,
                          removed |-> u.removed, added |-> u.added,
                          callbacks |-> InvokeCallback(tcallback, u.removed,
                                                       u.added, HostIP, ts),
                          containers |-> tcontainers, store |-> trecords]
             /\ UNCHANGED <<tcallback, othersTracker>>
        ELSE /\ tcall' = [op |-> "start", id |-> id]
             /\ UNCHANGED <<tcallback, tcontainers, trecords, othersTracker>>

\* handleEvent with a stop or die event: handleContainerStop
TrackerStop(id, action, ts) ==
    LET s == HandleContainerStop(tcontainers, trecords, id) IN
    /\ tcontainers' = s.containers
    /\ trecords' = s.rec
    /\ tcall' = [op |-> action, id |-> id,
                 tracked |-> id \in DOMAIN tcontainers,
                 old |-> IF id \in DOMAIN tcontainers
                         THEN tcontainers[id] ELSE << >>,
                 removed |-> s.removed,
                 callbacks |-> InvokeCallback(tcallback, s.removed, << >>,
                                              HostIP, ts),
                 containers |-> tcontainers, store |-> trecords]
    /\ UNCHANGED <<tcallback, othersTracker>>

NextTracker ==
    \/ \E id \in ContainerIDs, labels \in TrackerLabelSets, ts \in Timestamps :
          TrackerStart(id, labels, ts)
    \/ \E id \in ContainerIDs, action \in {"stop", "die"}, ts \in Timestamps :
          TrackerStop(id, action, ts)

SpecTracker == InitTracker /\ [][NextTracker]_vars

(***************************************************************************)
(* The DNS handler.  A query is [name, qtype]; a message is what the       *)
(* handler hands to the response writer.  Names and stored addresses are   *)
(* sequences of character codes.                                           *)
(***************************************************************************)
Dot == 46

TypeA == "A"
TypeAAAA == "AAAA"
TypeMX == "MX"

RcodeSuccess == 0
RcodeServerFailure == 2
RcodeNameError == 3

ActionDrop == 0
ActionNXDomain == 1

DefaultTTL == 60

\* strings.TrimSuffix(qname, ".")
TrimSuffixDot(s) ==
    IF s # << >> /\ s[Len(s)] = Dot THEN SubSeq(s, 1, Len(s) - 1) ELSE s

\* strings.Split(s, ".")
RECURSIVE SplitDot(_)
SplitDot(s) ==
    IF \E i \in DOMAIN s : s[i] = Dot
    THEN LET i == CHOOSE k \in DOMAIN s :
                    s[k] = Dot /\ \A j \in 1..(k - 1) : s[j] # Dot
         IN  <<SubSeq(s, 1, i - 1)>> \o SplitDot(SubSeq(s, i + 1, Len(s)))
    ELSE <<s>>

\* the value of a run of decimal digits, -1 when it is no octet
RECURSIVE DigitsValue(_, _)
DigitsValue(s, acc) ==
    IF s = << >> THEN acc
    ELSE IF Head(s) \notin 48..57 THEN -1
    ELSE DigitsValue(Tail(s), 10 * acc + (Head(s) - 48))

Octet(s) ==
    IF Len(s) \notin 1..3 THEN -1
    ELSE IF Len(s) > 1 /\ s[1] = 48 THEN -1
    ELSE LET v == DigitsValue(s, 0) IN IF v > 255 THEN -1 ELSE v

\* the nil net.IP
NilIP == << >>

\* net.ParseIP(ip).To4() for dotted-quad text and for text that is no
\* IPv4 address; IPv4-mapped IPv6 text is not among the inputs
ParseIPTo4(ip) ==
    LET parts == SplitDot(ip) IN
    IF Len(parts) = 4 /\ \A i \in 1..4 : Octet(parts[i]) >= 0
    THEN [i \in 1..4 |-> Octet(parts[i])]
    ELSE NilIP

\* state.Name(): the question's name in lower case
RequestName(q) == ToLower(q.name)

\* new(dns.Msg) followed by m.SetReply(r)
SetReply(q) ==
    [Response |-> TRUE, Rcode |-> RcodeSuccess, Authoritative |-> FALSE,
     Question |-> q, Answer |-> << >>]

\* new(dns.Msg) followed by m.SetRcode(r, rcode)
SetRcode(q, rcode) ==
    [Response |-> TRUE, Rcode |-> rcode, Authoritative |-> FALSE,
     Question |-> q, Answer |-> << >>]

\* a mutated answer that does not set the authoritative bit
AnswerANotAuthoritative(dc, q, ip) ==
    [SetReply(q) EXCEPT
        !.Answer = <<[Name |-> q.name, Rrtype |-> TypeA, Ttl |-> dc.TTL,
                      A |-> ParseIPTo4(ip)]>>]

\* ServeDNS, "Build the response": the A record and the reply around it
AnswerA(dc, q, ip) ==
    [SetReply(q) EXCEPT
        !.Authoritative = TRUE,
        !.Answer = <<[Name |-> q.name, Rrtype |-> TypeA, Ttl |-> dc.TTL,
                      A |-> ParseIPTo4(ip)]>>]

\* plugin.NextOrFailure: the next handler answers, or there is none
NextOrFailure(dc, q) ==
    IF dc.Next
    THEN [written |-> << >>, code |-> RcodeSuccess, err |-> FALSE,
          next |-> TRUE]
    ELSE [written |-> << >>, code |-> RcodeServerFailure, err |-> TRUE,
          next |-> FALSE]

\* a mutated handleUnknown that answers NXDOMAIN whatever the policy
HandleUnknownNXDomain(dc, q) ==
    IF dc.Fall THEN NextOrFailure(dc, q)
    ELSE [written |-> <<SetRcode(q, RcodeNameError)>>,
          code |-> RcodeNameError, err |-> FALSE, next |-> FALSE]

\* DockerCluster.handleUnknown
HandleUnknown(dc, q) ==
    IF dc.Fall THEN NextOrFailure(dc, q)
    ELSE IF dc.UnknownAction = ActionNXDomain
    THEN [written |-> <<SetRcode(q, RcodeNameError)>>,
          code |-> RcodeNameError, err |-> FALSE, next |-> FALSE]
    ELSE [written |-> << >>, code |-> RcodeSuccess, err |-> FALSE,
          next |-> FALSE]

\* DockerCluster.ServeDNS: what it writes, what it returns and whether it
\* called the next handler
ServeDNS(dc, r, q) ==
    LET qname == TrimSuffixDot(ToLower(RequestName(q)))
        res == Lookup(r, qname)
    IN  IF q.qtype = TypeAAAA /\ res.found
        THEN [written |-> <<SetReply(q)>>, code |-> RcodeSuccess,
              err |-> FALSE, next |-> FALSE]
        ELSE IF q.qtype # TypeA THEN HandleUnknown(dc, q)
        ELSE IF ~res.found THEN HandleUnknown(dc, q)
        ELSE [written |-> <<AnswerA(dc, q, res.ip)>>, code |-> RcodeSuccess,
              err |-> FALSE, next |-> FALSE]

(***************************************************************************)
(* SpecHandler: one handler with any configuration; the watcher and the    *)
(* cluster change the store between queries.                               *)
(***************************************************************************)
\* stored addresses as text, with the IPv4 address the text denotes:
\* "10.0.0.1", "192.168.1.100", "not-an-ip", "" and "::1"
HandlerIPs ==
    {[text |-> <<49, 48, 46, 48, 46, 48, 46, 49>>, v4 |-> <<10, 0, 0, 1>>],
     [text |-> <<49, 57, 50, 46, 49, 54, 56, 46, 49, 46, 49, 48, 48>>,
      v4 |-> <<192, 168, 1, 100>>],
     [text |-> <<110, 111, 116, 45, 97, 110, 45, 105, 112>>, v4 |-> NilIP],
     [text |-> << >>, v4 |-> NilIP],
     [text |-> <<58, 58, 49>>, v4 |-> NilIP]}

\* the query names "a.", "A." and "b."
QueryNames == {<<97, Dot>>, <<65, Dot>>, <<98, Dot>>}

Queries == [name : QueryNames, qtype : {TypeA, TypeAAAA, TypeMX}]

HandlerConfigs ==
    [TTL : {DefaultTTL, 2 * DefaultTTL}, Fall : BOOLEAN, Next : BOOLEAN,
     UnknownAction : {ActionDrop, ActionNXDomain}]

InitHandler ==
    /\ hcfg \in HandlerConfigs
    /\ hrecords = NewRecords
    /\ hlast = NoCall
    /\ OrderIdle
    /\ StoreIdle
    /\ ConcIdle
    /\ WatchIdle
    /\ ClusterIdle
    /\ MergeIdle
    /\ GossipIdle
    /\ DelegateIdle
    /\ ManagerIdle
    /\ TrackerIdle
    /\ LoopIdle
    /\ LifeIdle
    /\ TeardownIdle
    /\ LockIdle

\* the watcher or the cluster stores an address for a hostname
HandlerStoreAdd(hostname, ip) ==
    /\ hrecords' = Add(hrecords, hostname, ip)
    /\ hlast' = NoCall
    /\ UNCHANGED <<hcfg, othersHandler>>

\* the watcher or the cluster removes a hostname
HandlerStoreRemove(hostname) ==
    /\ hrecords' = Remove(hrecords, hostname)
    /\ hlast' = NoCall
    /\ UNCHANGED <<hcfg, othersHandler>>

\* dc.ServeDNS(ctx, w, r)
HandlerServeDNS(q) ==
    /\ hlast' = [op |-> "ServeDNS", q |-> q,
                 res |-> ServeDNS(hcfg, hrecords, q)]
    /\ UNCHANGED <<hcfg, hrecords, othersHandler>>

NextHandler ==
    \/ \E hostname \in {HostA, HostUpperA}, ip \in HandlerIPs :
          HandlerStoreAdd(hostname, ip.text)
    \/ \E hostname \in {HostA} : HandlerStoreRemove(hostname)
    \/ \E q \in Queries : HandlerServeDNS(q)

SpecHandler == InitHandler /\ [][NextHandler]_vars

(***************************************************************************)
(* SpecLoop: the worker goroutine of one watcher (watchLoop), the runtime  *)
(* it talks to and the caller of Start and Stop.  Durations are in         *)
(* seconds.  A call on the runtime fails when the runtime is unreachable   *)
(* or the watcher's context is cancelled.  Start is called once.           *)
(***************************************************************************)
\* backoff := time.Second and maxBackoff := 5 * time.Minute
BackoffStart == 1
MaxBackoff == 300

\* a mutated nextBackoff that keeps the delay
NextBackoffConstant(current, max) == current

\* DockerWatcher.nextBackoff
NextBackoff(current, max) ==
    IF current * 2 > max THEN max ELSE current * 2

LoopID == "c1"

\* the label sets of the container: "a" and "b"
LoopLabelSets ==
    {[l \in {"coredns.host.name"} |-> ValA],
     [l \in {"joyride.host.name"} |-> ValB]}

\* a call on the runtime with dw.ctx returns an error
CallFails == ~reachable \/ lcancelled

\* the event stream of the current connection delivers events
Streaming == lpc = "watch" /\ lclient /\ reachable /\ ~lcancelled

InitLoop ==
    /\ lrunning = FALSE
    /\ lcancelled = FALSE
    /\ lpc = "none"
    /\ backoff = BackoffStart
    /\ lclient = FALSE
    /\ reachable \in BOOLEAN
    /\ ldocker = EmptyMap
    /\ levents = << >>
    /\ lcontainers = EmptyMap
    /\ lrecords = NewRecords
    /\ stopPc = "idle"
    /\ lerr = "none"
    /\ OrderIdle
    /\ StoreIdle
    /\ ConcIdle
    /\ WatchIdle
    /\ ClusterIdle
    /\ MergeIdle
    /\ GossipIdle
    /\ DelegateIdle
    /\ ManagerIdle
    /\ TrackerIdle
    /\ HandlerIdle
    /\ LifeIdle
    /\ TeardownIdle
    /\ LockIdle

\* dw.Start(ctx)
LoopStart ==
    /\ ~lrunning
    /\ lpc = "none"
    /\ lrunning' = TRUE
    /\ lpc' = "top"
    /\ UNCHANGED <<lcancelled, backoff, lclient, reachable, ldocker, levents,
                   lcontainers, lrecords, stopPc, lerr, othersLoop>>

\* a mutated loop head that does not look at dw.ctx.Done()
LoopTopIgnoreDone ==
    /\ lpc = "top"
    /\ lpc' = "connect"
    /\ UNCHANGED <<lrunning, lcancelled, backoff, lclient, reachable, ldocker,
                   levents, lcontainers, lrecords, stopPc, lerr, othersLoop>>

\* watchLoop: the select on dw.ctx.Done() at the head of the loop
LoopTop ==
    /\ lpc = "top"
    /\ lpc' = IF lcancelled THEN "done" ELSE "connect"
    /\ UNCHANGED <<lrunning, lcancelled, backoff, lclient, reachable, ldocker,
                   levents, lcontainers, lrecords, stopPc, lerr, othersLoop>>

\* dw.connect() succeeds and the backoff is reset
LoopConnectOk ==
    /\ lpc = "connect"
    /\ ~CallFails
    /\ lclient' = TRUE
    /\ backoff' = BackoffStart
    /\ lpc' = "sync"
    /\ lerr' = "none"
    /\ UNCHANGED <<lrunning, lcancelled, reachable, ldocker, levents,
                   lcontainers, lrecords, stopPc, othersLoop>>

\* dw.connect() fails: the worker goes to dw.sleep(backoff)
LoopConnectError ==
    /\ lpc = "connect"
    /\ CallFails
    /\ lpc' = "sleep"
    /\ lerr' = "connect"
    /\ UNCHANGED <<lrunning, lcancelled, backoff, lclient, reachable, ldocker,
                   levents, lcontainers, lrecords, stopPc, othersLoop>>

\* dw.syncContainers() succeeds; watchEvents subscribes to the events
LoopSyncOk ==
    /\ lpc = "sync"
    /\ ~CallFails
    /\ LET list == [i \in 1..Cardinality(DOMAIN ldocker) |->
                      [ID |-> LoopID, Labels |-> ldocker[LoopID]]]
           res == SyncContainers(lcontainers, lrecords, list, HostIP)
       IN  /\ lcontainers' = res.containers
           /\ lrecords' = res.rec
    /\ levents' = << >>
    /\ lpc' = "subscribe"
    /\ lerr' = "none"
    /\ UNCHANGED <<lrunning, lcancelled, backoff, lclient, reachable, ldocker,
                   stopPc, othersLoop>>

\* watchEvents calls cli.Events: the stream reports what happens from now on
LoopSubscribe ==
    /\ lpc = "subscribe"
    /\ lpc' = "watch"
    /\ UNCHANGED <<lrunning, lcancelled, backoff, lclient, reachable, ldocker,
                   levents, lcontainers, lrecords, stopPc, lerr, othersLoop>>

\* a mutated list failure that leaves the client open
LoopSyncErrorKeepClient ==
    /\ lpc = "sync"
    /\ CallFails
    /\ lpc' = "sleep"
    /\ lerr' = "list"
    /\ UNCHANGED <<lrunning, lcancelled, backoff, lclient, reachable, ldocker,
                   levents, lcontainers, lrecords, stopPc, othersLoop>>

\* dw.syncContainers() fails on ContainerList: closeClient, then sleep
LoopSyncError ==
    /\ lpc = "sync"
    /\ CallFails
    /\ lclient' = FALSE
    /\ lpc' = "sleep"
    /\ lerr' = "list"
    /\ UNCHANGED <<lrunning, lcancelled, backoff, reachable, ldocker, levents,
                   lcontainers, lrecords, stopPc, othersLoop>>

\* watchEvents reads an event whose handler succeeds
LoopEvent ==
    /\ lpc = "watch"
    /\ levents # << >>
    /\ LET e == Head(levents) IN
       IF e.Action = "start"
       THEN /\ ~CallFails
            /\ e.ID \in DOMAIN ldocker
            /\ LET hostnames == ExtractHostnames(ldocker[e.ID])
                   u == UpdateContainer(lcontainers, lrecords, e.ID,
                                        hostnames, HostIP)
               IN  IF Len(hostnames) > 0
                   THEN /\ lcontainers' = u.containers
                        /\ lrecords' = u.rec
                   ELSE UNCHANGED <<lcontainers, lrecords>>
       ELSE LET st == HandleContainerStop(lcontainers, lrecords, e.ID) IN
            /\ lcontainers' = st.containers
            /\ lrecords' = st.rec
    /\ levents' = Tail(levents)
    /\ lerr' = "none"
    /\ UNCHANGED <<lrunning, lcancelled, lpc, backoff, lclient, reachable,
                   ldocker, stopPc, othersLoop>>

\* watchEvents reads a start event and ContainerInspect fails: the handler
\* logs the error and returns
LoopInspectError ==
    /\ lpc = "watch"
    /\ levents # << >>
    /\ Head(levents).Action = "start"
    /\ CallFails \/ Head(levents).ID \notin DOMAIN ldocker
    /\ levents' = Tail(levents)
    /\ lerr' = "inspect"
    /\ UNCHANGED <<lrunning, lcancelled, lpc, backoff, lclient, reachable,
                   ldocker, lcontainers, lrecords, stopPc, othersLoop>>

\* a mutated stream failure that purges tracker and store
LoopStreamErrorPurge ==
    /\ lpc = "watch"
    /\ CallFails
    /\ lclient' = FALSE
    /\ levents' = << >>
    /\ lcontainers' = EmptyMap
    /\ lrecords' = NewRecords
    /\ lpc' = "sleep"
    /\ lerr' = "stream"
    /\ UNCHANGED <<lrunning, lcancelled, backoff, reachable, ldocker,
                   stopPc, othersLoop>>

\* watchEvents reads an error from errChan: closeClient, then sleep
LoopStreamError ==
    /\ lpc = "watch"
    /\ CallFails
    /\ lclient' = FALSE
    /\ levents' = << >>
    /\ lpc' = "sleep"
    /\ lerr' = "stream"
    /\ UNCHANGED <<lrunning, lcancelled, backoff, reachable, ldocker,
                   lcontainers, lrecords, stopPc, othersLoop>>

\* watchEvents sees dw.ctx.Done() and returns nil: the loop continues
LoopStreamDone ==
    /\ lpc = "watch"
    /\ lcancelled
    /\ levents' = << >>
    /\ lpc' = "top"
    /\ lerr' = "none"
    /\ UNCHANGED <<lrunning, lcancelled, backoff, lclient, reachable, ldocker,
                   lcontainers, lrecords, stopPc, othersLoop>>

\* dw.sleep(backoff) returns, by the timer or by dw.ctx.Done(), and the
\* backoff is doubled
LoopSleepEnd ==
    /\ lpc = "sleep"
    /\ backoff' = NextBackoff(backoff, MaxBackoff)
    /\ lpc' = "top"
    /\ UNCHANGED <<lrunning, lcancelled, lclient, reachable, ldocker, levents,
                   lcontainers, lrecords, stopPc, lerr, othersLoop>>

\* the runtime becomes unreachable or reachable again
RuntimeToggle ==
    /\ reachable' = ~reachable
    /\ UNCHANGED <<lrunning, lcancelled, lpc, backoff, lclient, ldocker,
                   levents, lcontainers, lrecords, stopPc, lerr, othersLoop>>

\* the runtime starts the container; a connected stream reports it
LoopDockerRun(labels) ==
    /\ LoopID \notin DOMAIN ldocker
    /\ ldocker' = MapPut(ldocker, LoopID, labels)
    /\ IF Streaming
       THEN /\ Len(levents) < MaxQueue
            /\ levents' = Append(levents, [Action |-> "start", ID |-> LoopID])
       ELSE UNCHANGED levents
    /\ UNCHANGED <<lrunning, lcancelled, lpc, backoff, lclient, reachable,
                   lcontainers, lrecords, stopPc, lerr, othersLoop>>

\* the container stops; a connected stream reports it
LoopDockerStop ==
    /\ LoopID \in DOMAIN ldocker
    /\ ldocker' = MapDel(ldocker, LoopID)
    /\ IF Streaming
       THEN /\ Len(levents) < MaxQueue
            /\ levents' = Append(levents, [Action |-> "stop", ID |-> LoopID])
       ELSE UNCHANGED levents
    /\ UNCHANGED <<lrunning, lcancelled, lpc, backoff, lclient, reachable,
                   lcontainers, lrecords, stopPc, lerr, othersLoop>>

\* dw.Stop() up to dw.wg.Wait()
LoopStopCall ==
    /\ lrunning
    /\ stopPc = "idle"
    /\ lrunning' = FALSE
    /\ lcancelled' = TRUE
    /\ stopPc' = "waiting"
    /\ UNCHANGED <<lpc, backoff, lclient, reachable, ldocker, levents,
                   lcontainers, lrecords, lerr, othersLoop>>

\* dw.wg.Wait() returns, the client is closed and Stop returns
LoopStopReturn ==
    /\ stopPc = "waiting"
    /\ lpc = "done"
    /\ lclient' = FALSE
    /\ stopPc' = "returned"
    /\ UNCHANGED <<lrunning, lcancelled, lpc, backoff, reachable, ldocker,
                   levents, lcontainers, lrecords, lerr, othersLoop>>

\* the steps of the worker goroutine
LoopWorker ==
    \/ LoopTop
    \/ LoopConnectOk
    \/ LoopConnectError
    \/ LoopSyncOk
    \/ LoopSyncError
    \/ LoopSubscribe
    \/ LoopEvent
    \/ LoopInspectError
    \/ LoopStreamError
    \/ LoopStreamDone
    \/ LoopSleepEnd

NextLoop ==
    \/ LoopStart
    \/ LoopWorker
    \/ RuntimeToggle
    \/ \E labels \in LoopLabelSets : LoopDockerRun(labels)
    \/ LoopDockerStop
    \/ LoopStopCall
    \/ LoopStopReturn

SpecLoop == InitLoop /\ [][NextLoop]_vars

\* the scheduler runs a goroutine that can take a step: the worker, and
\* Stop once wg.Wait() can return
LoopFairness == WF_vars(LoopWorker) /\ WF_vars(LoopStopReturn)

SpecLoopFair == InitLoop /\ [][NextLoop]_vars /\ LoopFairness

(***************************************************************************)
(* GetAllWithMeta running beside the mutators of the cluster path.         *)
(***************************************************************************)
\* the mutators ApplyMessage calls
SnapOps(t) ==
    {op \in ConcOps(t) : op.kind \in {"AddWithMeta", "RemoveWithMeta"}}

\* a reader calls GetAllWithMeta (LocalState does, on the library's goroutine)
SnapBegin ==
    /\ rd.pc \in {"idle", "snapped"}
    /\ rd' = [pc |-> "snapData"]
    /\ UNCHANGED <<dataPtr, metaPtr, mu, wr, calls, abs, writtenIps, othersConc>>

\* currentData := r.data.Load()
SnapLoadData ==
    /\ rd.pc = "snapData"
    /\ rd' = [pc |-> "snapMeta", data |-> dataPtr]
    /\ UNCHANGED <<dataPtr, metaPtr, mu, wr, calls, abs, writtenIps, othersConc>>

\* currentMeta := r.meta.Load()
SnapLoadMeta ==
    /\ rd.pc = "snapMeta"
    /\ rd' = [pc |-> "snapBuild", data |-> rd.data, meta |-> metaPtr]
    /\ UNCHANGED <<dataPtr, metaPtr, mu, wr, calls, abs, writtenIps, othersConc>>

\* the loop over currentData that builds the result; the maps it reads are
\* no longer written by anyone
SnapBuild ==
    /\ rd.pc = "snapBuild"
    /\ rd' = [pc |-> "snapped",
              res |-> GetAllWithMeta([data |-> rd.data, meta |-> rd.meta])]
    /\ UNCHANGED <<dataPtr, metaPtr, mu, wr, calls, abs, writtenIps, othersConc>>

NextSnap ==
    \/ \E t \in Writers : \E op \in SnapOps(t) : WBegin(t, op)
    \/ \E t \in Writers : DoLock(t)
    \/ \E t \in Writers : DoLoadData(t)
    \/ \E t \in Writers : DoLoadMeta(t)
    \/ \E t \in Writers : DoCheckExists(t)
    \/ \E t \in Writers : DoCheckLWW(t)
    \/ \E t \in Writers : DoMakeData(t)
    \/ \E t \in Writers : DoCopyData(t)
    \/ \E t \in Writers : DoCopyDataExcept(t)
    \/ \E t \in Writers : DoSetData(t)
    \/ \E t \in Writers : DoMakeMeta(t)
    \/ \E t \in Writers : DoCopyMeta(t)
    \/ \E t \in Writers : DoCopyMetaExcept(t)
    \/ \E t \in Writers : DoSetMeta(t)
    \/ \E t \in Writers : DoStoreData(t)
    \/ \E t \in Writers : DoStoreMeta(t)
    \/ \E t \in Writers : DoUnlock(t)
    \/ SnapBegin
    \/ SnapLoadData
    \/ SnapLoadMeta
    \/ SnapBuild

SpecSnap == InitConc /\ [][NextSnap]_vars

(***************************************************************************)
(* SpecLife: DockerWatcher.Start and DockerWatcher.Stop called by two      *)
(* goroutines.  The statements under dw.mu are one step; the statements    *)
(* after the unlock are a step each.  A watchLoop goroutine is reduced to  *)
(* its start and its return at the select on dw.ctx.Done().                *)
(***************************************************************************)
LifeCallers == {1, 2}

IdleCallers == [c \in LifeCallers |-> "idle"]

InitLife ==
    /\ dwRunning = FALSE
    /\ dwCtx = 0
    /\ dwCancel = 0
    /\ ctxDone = {}
    /\ dwWg = 0
    /\ loops = {}
    /\ lifePc = IdleCallers
    /\ nStart = 0
    /\ nStop = 0
    /\ OrderIdle
    /\ StoreIdle
    /\ ConcIdle
    /\ WatchIdle
    /\ ClusterIdle
    /\ MergeIdle
    /\ GossipIdle
    /\ DelegateIdle
    /\ ManagerIdle
    /\ TrackerIdle
    /\ HandlerIdle
    /\ LoopIdle
    /\ TeardownIdle
    /\ LockIdle

\* Start: dw.mu.Lock() ... dw.mu.Unlock(), with the early return
LifeStartLocked(c) ==
    /\ lifePc[c] = "idle"
    /\ nStart < MaxStarts
    /\ nStart' = nStart + 1
    /\ IF dwRunning
       THEN UNCHANGED <<dwRunning, dwCtx, dwCancel, lifePc>>
       ELSE /\ dwRunning' = TRUE
            /\ dwCtx' = nStart + 1
            /\ dwCancel' = nStart + 1
            /\ lifePc' = [lifePc EXCEPT ![c] = "wgAdd"]
    /\ UNCHANGED <<ctxDone, dwWg, loops, nStop, othersLife>>

\* Start: dw.wg.Add(1)
LifeStartAdd(c) ==
    /\ lifePc[c] = "wgAdd"
    /\ dwWg' = dwWg + 1
    /\ lifePc' = [lifePc EXCEPT ![c] = "go"]
    /\ UNCHANGED <<dwRunning, dwCtx, dwCancel, ctxDone, loops, nStart, nStop,
                   othersLife>>

\* Start: go dw.watchLoop(); return nil.  The goroutine is named after the
\* call that started it and remembers the context the field held then.
LifeStartGo(c) ==
    /\ lifePc[c] = "go"
    /\ loops' = loops \cup {[call |-> c, n |-> nStart, ctx |-> dwCtx]}
    /\ lifePc' = [lifePc EXCEPT ![c] = "idle"]
    /\ UNCHANGED <<dwRunning, dwCtx, dwCancel, ctxDone, dwWg, nStart, nStop,
                   othersLife>>

\* Stop: dw.mu.Lock() ... dw.mu.Unlock(), with the early return
LifeStopLocked(c) ==
    /\ lifePc[c] = "idle"
    /\ nStop < MaxStops
    /\ nStop' = nStop + 1
    /\ IF ~dwRunning
       THEN UNCHANGED <<dwRunning, lifePc>>
       ELSE /\ dwRunning' = FALSE
            /\ lifePc' = [lifePc EXCEPT ![c] = "cancel"]
    /\ UNCHANGED <<dwCtx, dwCancel, ctxDone, dwWg, loops, nStart, othersLife>>

\* Stop: if dw.cancel != nil { dw.cancel() }, the field read without the lock
LifeStopCancel(c) ==
    /\ lifePc[c] = "cancel"
    /\ ctxDone' = IF dwCancel # 0 THEN ctxDone \cup {dwCancel} ELSE ctxDone
    /\ lifePc' = [lifePc EXCEPT ![c] = "wait"]
    /\ UNCHANGED <<dwRunning, dwCtx, dwCancel, dwWg, loops, nStart, nStop,
                   othersLife>>

\* Stop: dw.wg.Wait() returns, the client is closed and Stop returns
LifeStopReturn(c) ==
    /\ lifePc[c] = "wait"
    /\ dwWg = 0
    /\ lifePc' = [lifePc EXCEPT ![c] = "idle"]
    /\ UNCHANGED <<dwRunning, dwCtx, dwCancel, ctxDone, dwWg, loops, nStart,
                   nStop, othersLife>>

\* watchLoop: case <-dw.ctx.Done(): return, with the deferred dw.wg.Done().
\* The goroutine reads the field dw.ctx without the lock: when a Start has
\* written the field since, it sees the new context or the one it started
\* with.
LifeLoopReturn ==
    /\ \E w \in loops :
          /\ dwCtx \in ctxDone \/ w.ctx \in ctxDone
          /\ loops' = loops \ {w}
    /\ dwWg' = dwWg - 1
    /\ UNCHANGED <<dwRunning, dwCtx, dwCancel, ctxDone, lifePc, nStart, nStop,
                   othersLife>>

NextLife ==
    \/ \E c \in LifeCallers : LifeStartLocked(c)
    \/ \E c \in LifeCallers : LifeStartAdd(c)
    \/ \E c \in LifeCallers : LifeStartGo(c)
    \/ \E c \in LifeCallers : LifeStopLocked(c)
    \/ \E c \in LifeCallers : LifeStopCancel(c)
    \/ \E c \in LifeCallers : LifeStopReturn(c)
    \/ LifeLoopReturn

SpecLife == InitLife /\ [][NextLife]_vars

(***************************************************************************)
(* SpecTeardown: ClusterManager.Start, Join and Stop, a caller of          *)
(* NotifyRecordAdd or NotifyRecordRemove, the goroutine of the membership  *)
(* library that asks the delegate for broadcasts, the delegate worker and  *)
(* the discovery join loop.  cm.mu is a sync.RWMutex: RLock waits while a  *)
(* writer holds the lock or waits for it.  The library's broadcast queue   *)
(* has a mutex of its own, held by QueueBroadcast and by GetBroadcasts,    *)
(* which calls the NumNodes function while it holds it.                    *)
(***************************************************************************)
StopOrder == <<"cancel", "discovery", "delegate", "leave", "shutdown">>

\* sync.RWMutex.RLock returns
CanRLock == ~tdMu.w /\ ~tdMu.pend

\* sync.RWMutex.Lock returns
CanLock == ~tdMu.w /\ tdMu.r = {}

RLocked(g) == [tdMu EXCEPT !.r = @ \cup {g}]

RUnlocked(g) == [tdMu EXCEPT !.r = @ \ {g}]

\* memberlist.NumMembers counts the members that are neither dead nor gone:
\* the node itself counts until it has left
NumMembersResults == IF tdLeft THEN {0, 1, 2} ELSE {1, 2}

InitTeardown ==
    /\ tdSeeds \in BOOLEAN
    /\ tdMu = [w |-> FALSE, r |-> {}, pend |-> FALSE]
    /\ tdQmu = FALSE
    /\ tdQueue = 0
    /\ tdMemberlist = "nil"
    /\ tdLeft = FALSE
    /\ tdCtxDone = FALSE
    /\ tdDiscovery = "nil"
    /\ tdWorker = "none"
    /\ tdStopPc = "idle"
    /\ tdStopTrace = << >>
    /\ tdStopErr = FALSE
    /\ tdNotifyPc = "idle"
    /\ tdGossipPc = "idle"
    /\ tdJoin = [pc |-> "idle"]
    /\ tdLoop = [pc |-> "none"]
    /\ OrderIdle
    /\ StoreIdle
    /\ ConcIdle
    /\ WatchIdle
    /\ ClusterIdle
    /\ MergeIdle
    /\ GossipIdle
    /\ DelegateIdle
    /\ ManagerIdle
    /\ TrackerIdle
    /\ HandlerIdle
    /\ LoopIdle
    /\ LifeIdle
    /\ LockIdle

\* cm.Start(ctx) with memberlist.Create succeeding; the call holds cm.mu from
\* its first statement to its return
TdStart ==
    /\ tdMemberlist = "nil"
    /\ tdStopPc = "idle"
    /\ CanLock
    /\ tdMemberlist' = "live"
    /\ tdWorker' = "running"
    /\ tdDiscovery' = IF tdSeeds THEN "nil" ELSE "running"
    /\ UNCHANGED <<tdSeeds, tdMu, tdQmu, tdQueue, tdLeft, tdCtxDone,
                   tdStopPc, tdStopTrace, tdStopErr, tdNotifyPc, tdGossipPc,
                   tdJoin, tdLoop, othersTeardown>>

\* cm.Stop() calls cm.mu.Lock()
TdStopCall ==
    /\ tdStopPc = "idle"
    /\ tdMemberlist = "live"
    /\ tdStopPc' = "lock"
    /\ tdMu' = [tdMu EXCEPT !.pend = TRUE]
    /\ UNCHANGED <<tdSeeds, tdQmu, tdQueue, tdMemberlist, tdLeft, tdCtxDone,
                   tdDiscovery, tdWorker, tdStopTrace, tdStopErr, tdNotifyPc,
                   tdGossipPc, tdJoin, tdLoop, othersTeardown>>

\* cm.mu.Lock() returns
TdStopLock ==
    /\ tdStopPc = "lock"
    /\ CanLock
    /\ tdMu' = [tdMu EXCEPT !.w = TRUE, !.pend = FALSE]
    /\ tdStopPc' = "cancel"
    /\ UNCHANGED <<tdSeeds, tdQmu, tdQueue, tdMemberlist, tdLeft, tdCtxDone,
                   tdDiscovery, tdWorker, tdStopTrace, tdStopErr, tdNotifyPc,
                   tdGossipPc, tdJoin, tdLoop, othersTeardown>>

\* if cm.cancel != nil { cm.cancel() }
TdStopCancel ==
    /\ tdStopPc = "cancel"
    /\ tdCtxDone' = TRUE
    /\ tdStopTrace' = Append(tdStopTrace, "cancel")
    /\ tdStopPc' = "discovery"
    /\ UNCHANGED <<tdSeeds, tdMu, tdQmu, tdQueue, tdMemberlist, tdLeft,
                   tdDiscovery, tdWorker, tdStopErr, tdNotifyPc, tdGossipPc,
                   tdJoin, tdLoop, othersTeardown>>

\* if cm.discovery != nil { cm.discovery.Stop() }: its two loops watch the
\* context and a read deadline
TdStopDiscovery ==
    /\ tdStopPc = "discovery"
    /\ IF tdDiscovery # "nil"
       THEN /\ tdDiscovery' = "stopped"
            /\ tdStopTrace' = Append(tdStopTrace, "discovery")
       ELSE UNCHANGED <<tdDiscovery, tdStopTrace>>
    /\ tdStopPc' = "delegate"
    /\ UNCHANGED <<tdSeeds, tdMu, tdQmu, tdQueue, tdMemberlist, tdLeft,
                   tdCtxDone, tdWorker, tdStopErr, tdNotifyPc, tdGossipPc,
                   tdJoin, tdLoop, othersTeardown>>

\* cm.delegate.Stop(): d.cancel(), then d.wg.Wait() returns when the worker
\* has returned
TdStopDelegate ==
    /\ tdStopPc = "delegate"
    /\ tdWorker # "running"
    /\ tdStopTrace' = Append(tdStopTrace, "delegate")
    /\ tdStopPc' = "leave"
    /\ UNCHANGED <<tdSeeds, tdMu, tdQmu, tdQueue, tdMemberlist, tdLeft,
                   tdCtxDone, tdDiscovery, tdWorker, tdStopErr, tdNotifyPc,
                   tdGossipPc, tdJoin, tdLoop, othersTeardown>>

\* a mutated Leave step that gives up on an error
TdStopLeaveAbort ==
    /\ tdStopPc = "leave"
    /\ tdLeft' = TRUE
    /\ tdStopTrace' = Append(tdStopTrace, "leave")
    /\ \E err \in BOOLEAN :
         /\ tdStopErr' = err
         /\ tdStopPc' = IF err THEN "unlock" ELSE "shutdown"
    /\ UNCHANGED <<tdSeeds, tdMu, tdQmu, tdQueue, tdMemberlist, tdCtxDone,
                   tdDiscovery, tdWorker, tdNotifyPc, tdGossipPc, tdJoin,
                   tdLoop, othersTeardown>>

\* cm.memberlist.Leave(5 * time.Second): it returns within the grace, with
\* an error or without; the error is logged
TdStopLeave ==
    /\ tdStopPc = "leave"
    /\ tdLeft' = TRUE
    /\ tdStopTrace' = Append(tdStopTrace, "leave")
    /\ \E err \in BOOLEAN : tdStopErr' = err
    /\ tdStopPc' = "shutdown"
    /\ UNCHANGED <<tdSeeds, tdMu, tdQmu, tdQueue, tdMemberlist, tdCtxDone,
                   tdDiscovery, tdWorker, tdNotifyPc, tdGossipPc, tdJoin,
                   tdLoop, othersTeardown>>

\* cm.memberlist.Shutdown(); its error is logged and returned
TdStopShutdown ==
    /\ tdStopPc = "shutdown"
    /\ tdMemberlist' = "shutdown"
    /\ tdStopTrace' = Append(tdStopTrace, "shutdown")
    /\ \E err \in BOOLEAN : tdStopErr' = err
    /\ tdStopPc' = "unlock"
    /\ UNCHANGED <<tdSeeds, tdMu, tdQmu, tdQueue, tdLeft, tdCtxDone,
                   tdDiscovery, tdWorker, tdNotifyPc, tdGossipPc, tdJoin,
                   tdLoop, othersTeardown>>

\* the deferred cm.mu.Unlock(); Stop returns
TdStopReturn ==
    /\ tdStopPc = "unlock"
    /\ tdMu' = [tdMu EXCEPT !.w = FALSE]
    /\ tdStopPc' = "returned"
    /\ UNCHANGED <<tdSeeds, tdQmu, tdQueue, tdMemberlist, tdLeft, tdCtxDone,
                   tdDiscovery, tdWorker, tdStopTrace, tdStopErr, tdNotifyPc,
                   tdGossipPc, tdJoin, tdLoop, othersTeardown>>

\* processMessages: case <-d.ctx.Done(): return; the delegate's context is a
\* child of the manager's
TdWorkerReturn ==
    /\ tdWorker = "running"
    /\ tdCtxDone \/ tdStopPc = "delegate"
    /\ tdWorker' = "done"
    /\ UNCHANGED <<tdSeeds, tdMu, tdQmu, tdQueue, tdMemberlist, tdLeft,
                   tdCtxDone, tdDiscovery, tdStopPc, tdStopTrace, tdStopErr,
                   tdNotifyPc, tdGossipPc, tdJoin, tdLoop, othersTeardown>>

\* NotifyRecordAdd or NotifyRecordRemove: cm.mu.RLock()
TdNotifyRLock ==
    /\ tdNotifyPc = "idle"
    /\ tdQueue < MaxQueue
    /\ CanRLock
    /\ tdMu' = RLocked("notify")
    /\ tdNotifyPc' = "queue"
    /\ UNCHANGED <<tdSeeds, tdQmu, tdQueue, tdMemberlist, tdLeft, tdCtxDone,
                   tdDiscovery, tdWorker, tdStopPc, tdStopTrace, tdStopErr,
                   tdGossipPc, tdJoin, tdLoop, othersTeardown>>

\* cm.records.ApplyMessage(msg), which takes the store's mutex alone, and
\* cm.delegate.BroadcastRecord(msg): QueueBroadcast takes the queue's mutex
TdNotifyQueue ==
    /\ tdNotifyPc = "queue"
    /\ ~tdQmu
    /\ tdQueue' = tdQueue + 1
    /\ tdNotifyPc' = "unlock"
    /\ UNCHANGED <<tdSeeds, tdMu, tdQmu, tdMemberlist, tdLeft, tdCtxDone,
                   tdDiscovery, tdWorker, tdStopPc, tdStopTrace, tdStopErr,
                   tdGossipPc, tdJoin, tdLoop, othersTeardown>>

\* the deferred cm.mu.RUnlock()
TdNotifyRUnlock ==
    /\ tdNotifyPc = "unlock"
    /\ tdMu' = RUnlocked("notify")
    /\ tdNotifyPc' = "idle"
    /\ UNCHANGED <<tdSeeds, tdQmu, tdQueue, tdMemberlist, tdLeft, tdCtxDone,
                   tdDiscovery, tdWorker, tdStopPc, tdStopTrace, tdStopErr,
                   tdGossipPc, tdJoin, tdLoop, othersTeardown>>

\* the library calls d.GetBroadcasts: the queue takes its mutex and, not
\* being empty, calls NumNodes
TdGossipGet ==
    /\ tdGossipPc = "idle"
    /\ tdMemberlist = "live"
    /\ tdQueue > 0
    /\ ~tdQmu
    /\ tdQmu' = TRUE
    /\ tdGossipPc' = "numNodes"
    /\ UNCHANGED <<tdSeeds, tdMu, tdQueue, tdMemberlist, tdLeft, tdCtxDone,
                   tdDiscovery, tdWorker, tdStopPc, tdStopTrace, tdStopErr,
                   tdNotifyPc, tdJoin, tdLoop, othersTeardown>>

\* the numNodes function: cm.mu.RLock()
TdGossipRLock ==
    /\ tdGossipPc = "numNodes"
    /\ CanRLock
    /\ tdMu' = RLocked("gossip")
    /\ tdGossipPc' = "count"
    /\ UNCHANGED <<tdSeeds, tdQmu, tdQueue, tdMemberlist, tdLeft, tdCtxDone,
                   tdDiscovery, tdWorker, tdStopPc, tdStopTrace, tdStopErr,
                   tdNotifyPc, tdJoin, tdLoop, othersTeardown>>

\* the numNodes function returns the count and unlocks; GetBroadcasts hands
\* out the messages and releases the queue's mutex
TdGossipCount ==
    /\ tdGossipPc = "count"
    /\ tdMu' = RUnlocked("gossip")
    /\ tdQmu' = FALSE
    /\ \E sent \in {0, 1} : tdQueue' = tdQueue - sent
    /\ tdGossipPc' = "idle"
    /\ UNCHANGED <<tdSeeds, tdMemberlist, tdLeft, tdCtxDone, tdDiscovery,
                   tdWorker, tdStopPc, tdStopTrace, tdStopErr, tdNotifyPc,
                   tdJoin, tdLoop, othersTeardown>>

\* cm.Join() on a started manager that has not been stopped: the fields are
\* read under cm.mu.RLock()
TdJoinRead ==
    /\ tdJoin.pc = "idle"
    /\ tdMemberlist = "live"
    /\ CanRLock
    /\ tdJoin' = [pc |-> "read", seeds |-> tdSeeds,
                  discovery |-> tdDiscovery # "nil"]
    /\ UNCHANGED <<tdSeeds, tdMu, tdQmu, tdQueue, tdMemberlist, tdLeft,
                   tdCtxDone, tdDiscovery, tdWorker, tdStopPc, tdStopTrace,
                   tdStopErr, tdNotifyPc, tdGossipPc, tdLoop, othersTeardown>>

\* cm.Join(): with seeds ml.Join(seeds) and its error; without seeds the
\* join loop is started, or nothing when discovery is nil
TdJoinAct ==
    /\ tdJoin.pc = "read"
    /\ IF tdJoin.seeds
       THEN /\ \E err \in BOOLEAN : tdJoin' = [pc |-> "returned", err |-> err]
            /\ UNCHANGED tdLoop
       ELSE /\ tdJoin' = [pc |-> "returned", err |-> FALSE]
            /\ tdLoop' = IF tdJoin.discovery
                         THEN [pc |-> "select", peers |-> FALSE, members |-> 0]
                         ELSE tdLoop
    /\ UNCHANGED <<tdSeeds, tdMu, tdQmu, tdQueue, tdMemberlist, tdLeft,
                   tdCtxDone, tdDiscovery, tdWorker, tdStopPc, tdStopTrace,
                   tdStopErr, tdNotifyPc, tdGossipPc, othersTeardown>>

\* discoveryJoinLoop: case <-cm.ctx.Done(): return
TdLoopDone ==
    /\ tdLoop.pc = "select"
    /\ tdCtxDone
    /\ tdLoop' = [pc |-> "exited"]
    /\ UNCHANGED <<tdSeeds, tdMu, tdQmu, tdQueue, tdMemberlist, tdLeft,
                   tdCtxDone, tdDiscovery, tdWorker, tdStopPc, tdStopTrace,
                   tdStopErr, tdNotifyPc, tdGossipPc, tdJoin, othersTeardown>>

\* discoveryJoinLoop: case <-ticker.C
TdLoopTick ==
    /\ tdLoop.pc = "select"
    /\ tdLoop' = [pc |-> "read", peers |-> FALSE, members |-> 0]
    /\ UNCHANGED <<tdSeeds, tdMu, tdQmu, tdQueue, tdMemberlist, tdLeft,
                   tdCtxDone, tdDiscovery, tdWorker, tdStopPc, tdStopTrace,
                   tdStopErr, tdNotifyPc, tdGossipPc, tdJoin, othersTeardown>>

\* discoveryJoinLoop: cm.discovery and cm.memberlist are read under
\* cm.mu.RLock(); neither is nil once Start has set them
TdLoopRead ==
    /\ tdLoop.pc = "read"
    /\ CanRLock
    /\ tdLoop' = [tdLoop EXCEPT !.pc = "peers"]
    /\ UNCHANGED <<tdSeeds, tdMu, tdQmu, tdQueue, tdMemberlist, tdLeft,
                   tdCtxDone, tdDiscovery, tdWorker, tdStopPc, tdStopTrace,
                   tdStopErr, tdNotifyPc, tdGossipPc, tdJoin, othersTeardown>>

\* peers := discovery.GetPeers(); if len(peers) == 0 { continue }
TdLoopPeers ==
    /\ tdLoop.pc = "peers"
    /\ \E found \in BOOLEAN :
         tdLoop' = [tdLoop EXCEPT !.peers = found,
                                  !.pc = IF found THEN "members" ELSE "select"]
    /\ UNCHANGED <<tdSeeds, tdMu, tdQmu, tdQueue, tdMemberlist, tdLeft,
                   tdCtxDone, tdDiscovery, tdWorker, tdStopPc, tdStopTrace,
                   tdStopErr, tdNotifyPc, tdGossipPc, tdJoin, othersTeardown>>

\* if ml.NumMembers() > 1 { continue }
TdLoopNumMembers ==
    /\ tdLoop.pc = "members"
    /\ \E n \in NumMembersResults :
         tdLoop' = [tdLoop EXCEPT !.members = n,
                                  !.pc = IF n > 1 THEN "select" ELSE "join"]
    /\ UNCHANGED <<tdSeeds, tdMu, tdQmu, tdQueue, tdMemberlist, tdLeft,
                   tdCtxDone, tdDiscovery, tdWorker, tdStopPc, tdStopTrace,
                   tdStopErr, tdNotifyPc, tdGossipPc, tdJoin, othersTeardown>>

\* n, err := ml.Join(peers): the error is logged, the loop continues
TdLoopJoin ==
    /\ tdLoop.pc = "join"
    /\ tdLoop' = [tdLoop EXCEPT !.pc = "select"]
    /\ UNCHANGED <<tdSeeds, tdMu, tdQmu, tdQueue, tdMemberlist, tdLeft,
                   tdCtxDone, tdDiscovery, tdWorker, tdStopPc, tdStopTrace,
                   tdStopErr, tdNotifyPc, tdGossipPc, tdJoin, othersTeardown>>

TdStop ==
    \/ TdStopLock
    \/ TdStopCancel
    \/ TdStopDiscovery
    \/ TdStopDelegate
    \/ TdStopLeave
    \/ TdStopShutdown
    \/ TdStopReturn

TdNotify == TdNotifyQueue \/ TdNotifyRUnlock

TdGossip == TdGossipRLock \/ TdGossipCount

TdLoopStep == TdLoopRead \/ TdLoopPeers \/ TdLoopNumMembers \/ TdLoopJoin

NextTeardown ==
    \/ TdStart
    \/ TdStopCall
    \/ TdStop
    \/ TdWorkerReturn
    \/ TdNotifyRLock
    \/ TdNotify
    \/ TdGossipGet
    \/ TdGossip
    \/ TdJoinRead
    \/ TdJoinAct
    \/ TdLoopDone
    \/ TdLoopTick
    \/ TdLoopStep

SpecTeardown == InitTeardown /\ [][NextTeardown]_vars

\* a goroutine that can take a step takes one; the select of the join loop
\* chooses among its ready cases at random, so a case that is ready again
\* and again is taken
TeardownFairness ==
    /\ WF_vars(TdStop)
    /\ WF_vars(TdWorkerReturn)
    /\ WF_vars(TdNotify)
    /\ WF_vars(TdGossip)
    /\ WF_vars(TdJoinAct)
    /\ WF_vars(TdLoopStep)
    /\ SF_vars(TdLoopDone)

SpecTeardownFair == InitTeardown /\ [][NextTeardown]_vars /\ TeardownFairness

(***************************************************************************)
(* SpecLock: the mutexes of the watcher (dw.mu), the cluster manager       *)
(* (cm.mu) and the store (r.mu), and the goroutines that take them: the    *)
(* watch loop running updateContainer, handleContainerStop and the removal *)
(* pass of syncContainers, each followed by its callbacks into the         *)
(* manager; a caller of SetCallback; ClusterManager.Stop; and the delegate *)
(* worker applying a message.  Every Lock and RLock records the locks the  *)
(* goroutine already holds.                                                *)
(***************************************************************************)
LockGoroutines == {"worker", "setup", "manager", "delegate"}

\* the locks goroutine g holds: W is dw.mu, M is cm.mu, S is r.mu
Held(g) ==
    (IF lkW.w = g \/ g \in lkW.r THEN {"W"} ELSE {}) \cup
    (IF lkM.w = g \/ g \in lkM.r THEN {"M"} ELSE {}) \cup
    (IF lkS = g THEN {"S"} ELSE {})

\* the lock pairs after g, holding what it holds, has taken lock l
Taken(g, l) == lkEdges \cup {<<h, l>> : h \in Held(g)}

\* sync.RWMutex: Lock and RLock return
WriteFree(lock) == lock.w = "none" /\ lock.r = {}

ReadFree(lock) == lock.w = "none"

\* the positions of the watch loop inside the callback
CallbackPcs == {"notify", "notifyStore", "notifyQueue"}

InitLock ==
    /\ lkW = [w |-> "none", r |-> {}]
    /\ lkM = [w |-> "none", r |-> {}]
    /\ lkS = "none"
    /\ lkPc = [g \in LockGoroutines |-> "idle"]
    /\ lkJob = [kind |-> "none", n |-> 0, todo |-> 0]
    /\ lkEdges = {}
    /\ lkCallback = FALSE
    /\ OrderIdle
    /\ StoreIdle
    /\ ConcIdle
    /\ WatchIdle
    /\ ClusterIdle
    /\ MergeIdle
    /\ GossipIdle
    /\ DelegateIdle
    /\ ManagerIdle
    /\ TrackerIdle
    /\ HandlerIdle
    /\ LoopIdle
    /\ LifeIdle
    /\ TeardownIdle

\* updateContainer and handleContainerStop begin with dw.mu.Lock(); n is
\* the number of hostnames the call removes or adds
LkHandlerLock ==
    /\ lkPc["worker"] = "idle"
    /\ WriteFree(lkW)
    /\ \E kind \in {"update", "stop"}, n \in 0..MaxBatch :
         lkJob' = [kind |-> kind, n |-> n, todo |-> n]
    /\ lkW' = [lkW EXCEPT !.w = "worker"]
    /\ lkEdges' = Taken("worker", "W")
    /\ lkPc' = [lkPc EXCEPT !["worker"] = "tracker"]
    /\ UNCHANGED <<lkM, lkS, lkCallback, othersLock>>

\* the tracker is read and written; dw.mu.Unlock().  handleContainerStop
\* returns when the container is not tracked
LkHandlerUnlock ==
    /\ lkPc["worker"] = "tracker"
    /\ lkW' = [lkW EXCEPT !.w = "none"]
    /\ \E exists \in BOOLEAN :
         lkPc' = [lkPc EXCEPT !["worker"] =
                    IF lkJob.kind = "stop" /\ ~exists THEN "idle" ELSE "store"]
    /\ UNCHANGED <<lkM, lkS, lkJob, lkEdges, lkCallback, othersLock>>

\* dw.records.Remove(h) or dw.records.Add(h, dw.hostIP): r.mu.Lock()
LkStoreLock ==
    /\ lkPc["worker"] = "store"
    /\ lkJob.todo > 0
    /\ lkS = "none"
    /\ lkS' = "worker"
    /\ lkEdges' = Taken("worker", "S")
    /\ lkPc' = [lkPc EXCEPT !["worker"] = "storeHeld"]
    /\ UNCHANGED <<lkW, lkM, lkJob, lkCallback, othersLock>>

\* the deferred r.mu.Unlock()
LkStoreUnlock ==
    /\ lkPc["worker"] = "storeHeld"
    /\ lkS' = "none"
    /\ lkJob' = [lkJob EXCEPT !.todo = @ - 1]
    /\ lkPc' = [lkPc EXCEPT !["worker"] = "store"]
    /\ UNCHANGED <<lkW, lkM, lkEdges, lkCallback, othersLock>>

\* the removal pass of syncContainers: dw.mu.Lock(); n is the number of
\* hostnames of containers that were not listed
LkSyncLock ==
    /\ lkPc["worker"] = "idle"
    /\ WriteFree(lkW)
    /\ \E n \in 0..MaxBatch : lkJob' = [kind |-> "sync", n |-> n, todo |-> n]
    /\ lkW' = [lkW EXCEPT !.w = "worker"]
    /\ lkEdges' = Taken("worker", "W")
    /\ lkPc' = [lkPc EXCEPT !["worker"] = "syncHeld"]
    /\ UNCHANGED <<lkM, lkS, lkCallback, othersLock>>

\* dw.records.Remove(hostname) inside the pass: r.mu.Lock() under dw.mu
LkSyncStoreLock ==
    /\ lkPc["worker"] = "syncHeld"
    /\ lkJob.todo > 0
    /\ lkS = "none"
    /\ lkS' = "worker"
    /\ lkEdges' = Taken("worker", "S")
    /\ lkPc' = [lkPc EXCEPT !["worker"] = "syncStore"]
    /\ UNCHANGED <<lkW, lkM, lkJob, lkCallback, othersLock>>

\* the deferred r.mu.Unlock() of that Remove
LkSyncStoreUnlock ==
    /\ lkPc["worker"] = "syncStore"
    /\ lkS' = "none"
    /\ lkJob' = [lkJob EXCEPT !.todo = @ - 1]
    /\ lkPc' = [lkPc EXCEPT !["worker"] = "syncHeld"]
    /\ UNCHANGED <<lkW, lkM, lkEdges, lkCallback, othersLock>>

\* dw.mu.Unlock() after the pass; the callback is looked at only if
\* something was removed
LkSyncUnlock ==
    /\ lkPc["worker"] = "syncHeld"
    /\ lkJob.todo = 0
    /\ lkW' = [lkW EXCEPT !.w = "none"]
    /\ lkPc' = [lkPc EXCEPT !["worker"] =
                  IF lkJob.n > 0 THEN "callback" ELSE "idle"]
    /\ UNCHANGED <<lkM, lkS, lkJob, lkEdges, lkCallback, othersLock>>

\* the store calls of updateContainer and handleContainerStop are done
LkStoreDone ==
    /\ lkPc["worker"] = "store"
    /\ lkJob.todo = 0
    /\ lkPc' = [lkPc EXCEPT !["worker"] = "callback"]
    /\ UNCHANGED <<lkW, lkM, lkS, lkJob, lkEdges, lkCallback, othersLock>>

\* dw.mu.RLock() before cb := dw.callback
LkCallbackRLock ==
    /\ lkPc["worker"] = "callback"
    /\ ReadFree(lkW)
    /\ lkW' = [lkW EXCEPT !.r = @ \cup {"worker"}]
    /\ lkEdges' = Taken("worker", "W")
    /\ lkPc' = [lkPc EXCEPT !["worker"] = "callbackRead"]
    /\ UNCHANGED <<lkM, lkS, lkJob, lkCallback, othersLock>>

\* a mutated read of the callback that keeps the read lock for the calls
LkCallbackHeld ==
    /\ lkPc["worker"] = "callbackRead"
    /\ IF lkCallback /\ lkJob.n > 0
         THEN /\ lkJob' = [lkJob EXCEPT !.todo = lkJob.n]
              /\ lkPc' = [lkPc EXCEPT !["worker"] = "call"]
         ELSE /\ lkJob' = lkJob
              /\ lkPc' = [lkPc EXCEPT !["worker"] = "idle"]
    /\ lkW' = IF lkCallback /\ lkJob.n > 0
                THEN lkW ELSE [lkW EXCEPT !.r = @ \ {"worker"}]
    /\ UNCHANGED <<lkM, lkS, lkEdges, lkCallback, othersLock>>

\* cb := dw.callback; dw.mu.RUnlock(); with a callback there is one call
\* for each hostname removed or added
LkCallbackRUnlock ==
    /\ lkPc["worker"] = "callbackRead"
    /\ lkW' = [lkW EXCEPT !.r = @ \ {"worker"}]
    /\ IF lkCallback /\ lkJob.n > 0
         THEN /\ lkJob' = [lkJob EXCEPT !.todo = lkJob.n]
              /\ lkPc' = [lkPc EXCEPT !["worker"] = "call"]
         ELSE /\ lkJob' = lkJob
              /\ lkPc' = [lkPc EXCEPT !["worker"] = "idle"]
    /\ UNCHANGED <<lkM, lkS, lkEdges, lkCallback, othersLock>>

\* cb(...): the closure of setup calls cm.NotifyRecordAdd or
\* cm.NotifyRecordRemove, which begins with cm.mu.RLock()
LkNotifyRLock ==
    /\ lkPc["worker"] = "call"
    /\ ReadFree(lkM)
    /\ lkM' = [lkM EXCEPT !.r = @ \cup {"worker"}]
    /\ lkEdges' = Taken("worker", "M")
    /\ lkPc' = [lkPc EXCEPT !["worker"] = "notify"]
    /\ UNCHANGED <<lkW, lkS, lkJob, lkCallback, othersLock>>

\* cm.records.ApplyMessage(msg): r.mu.Lock() under cm.mu
LkNotifyStoreLock ==
    /\ lkPc["worker"] = "notify"
    /\ lkS = "none"
    /\ lkS' = "worker"
    /\ lkEdges' = Taken("worker", "S")
    /\ lkPc' = [lkPc EXCEPT !["worker"] = "notifyStore"]
    /\ UNCHANGED <<lkW, lkM, lkJob, lkCallback, othersLock>>

\* the deferred r.mu.Unlock() of ApplyMessage
LkNotifyStoreUnlock ==
    /\ lkPc["worker"] = "notifyStore"
    /\ lkS' = "none"
    /\ lkPc' = [lkPc EXCEPT !["worker"] = "notifyQueue"]
    /\ UNCHANGED <<lkW, lkM, lkJob, lkEdges, lkCallback, othersLock>>

\* cm.delegate.BroadcastRecord(msg) and the deferred cm.mu.RUnlock(); the
\* callback returns to the handler, which makes its next call or returns
LkNotifyRUnlock ==
    /\ lkPc["worker"] = "notifyQueue"
    /\ lkM' = [lkM EXCEPT !.r = @ \ {"worker"}]
    /\ lkJob' = [lkJob EXCEPT !.todo = @ - 1]
    /\ lkPc' = [lkPc EXCEPT !["worker"] =
                  IF lkJob.todo > 1 THEN "call" ELSE "idle"]
    /\ UNCHANGED <<lkW, lkS, lkEdges, lkCallback, othersLock>>

\* SetCallback: dw.mu.Lock()
LkSetCallbackLock ==
    /\ lkPc["setup"] = "idle"
    /\ WriteFree(lkW)
    /\ lkW' = [lkW EXCEPT !.w = "setup"]
    /\ lkEdges' = Taken("setup", "W")
    /\ lkPc' = [lkPc EXCEPT !["setup"] = "held"]
    /\ UNCHANGED <<lkM, lkS, lkJob, lkCallback, othersLock>>

\* dw.callback = cb and the deferred dw.mu.Unlock()
LkSetCallbackUnlock ==
    /\ lkPc["setup"] = "held"
    /\ \E cb \in BOOLEAN : lkCallback' = cb
    /\ lkW' = [lkW EXCEPT !.w = "none"]
    /\ lkPc' = [lkPc EXCEPT !["setup"] = "idle"]
    /\ UNCHANGED <<lkM, lkS, lkJob, lkEdges, othersLock>>

\* ClusterManager.Stop: cm.mu.Lock()
LkStopLock ==
    /\ lkPc["manager"] = "idle"
    /\ WriteFree(lkM)
    /\ lkM' = [lkM EXCEPT !.w = "manager"]
    /\ lkEdges' = Taken("manager", "M")
    /\ lkPc' = [lkPc EXCEPT !["manager"] = "held"]
    /\ UNCHANGED <<lkW, lkS, lkJob, lkCallback, othersLock>>

\* the teardown steps, none of which touches the watcher or the store, and
\* the deferred cm.mu.Unlock()
LkStopUnlock ==
    /\ lkPc["manager"] = "held"
    /\ lkM' = [lkM EXCEPT !.w = "none"]
    /\ lkPc' = [lkPc EXCEPT !["manager"] = "idle"]
    /\ UNCHANGED <<lkW, lkS, lkJob, lkEdges, lkCallback, othersLock>>

\* the delegate worker: processMessage calls records.ApplyMessage, which
\* takes r.mu
LkDelegateLock ==
    /\ lkPc["delegate"] = "idle"
    /\ lkS = "none"
    /\ lkS' = "delegate"
    /\ lkEdges' = Taken("delegate", "S")
    /\ lkPc' = [lkPc EXCEPT !["delegate"] = "held"]
    /\ UNCHANGED <<lkW, lkM, lkJob, lkCallback, othersLock>>

\* the deferred r.mu.Unlock()
LkDelegateUnlock ==
    /\ lkPc["delegate"] = "held"
    /\ lkS' = "none"
    /\ lkPc' = [lkPc EXCEPT !["delegate"] = "idle"]
    /\ UNCHANGED <<lkW, lkM, lkJob, lkEdges, lkCallback, othersLock>>

NextLock ==
    \/ LkHandlerLock
    \/ LkHandlerUnlock
    \/ LkStoreLock
    \/ LkStoreUnlock
    \/ LkStoreDone
    \/ LkSyncLock
    \/ LkSyncStoreLock
    \/ LkSyncStoreUnlock
    \/ LkSyncUnlock
    \/ LkCallbackRLock
    \/ LkCallbackRUnlock
    \/ LkNotifyRLock
    \/ LkNotifyStoreLock
    \/ LkNotifyStoreUnlock
    \/ LkNotifyRUnlock
    \/ LkSetCallbackLock
    \/ LkSetCallbackUnlock
    \/ LkStopLock
    \/ LkStopUnlock
    \/ LkDelegateLock
    \/ LkDelegateUnlock

SpecLock == InitLock /\ [][NextLock]_vars

(***************************************************************************)
(* Claims about the record store.                                          *)
(***************************************************************************)
OrderDone(r) == todo[r] = {}

TwoAddsDistinctStamps ==
    /\ Cardinality(batch) = 2
    /\ \A d \in batch : d.Action = RecordActionAdd
    /\ \A d1, d2 \in batch :
        d1 # d2 => (d1.Timestamp # d2.Timestamp \/ d1.NodeID # d2.NodeID)

\* the delta of the batch with the greatest (timestamp, node id)
Winner ==
    CHOOSE w \in batch : \A o \in batch \ {w} :
        StampLess(o.Timestamp, o.NodeID, w.Timestamp, w.NodeID)

\* C1: two adds for one hostname with distinct (timestamp, node id) stamps,
\* applied to an empty store in either order, leave Lookup at the ip of the
\* add with the greater stamp and GetMeta at that stamp.
C1_TwoAddsGreaterStampWins ==
    \A r \in Replicas :
        (OrderDone(r) /\ TwoAddsDistinctStamps) =>
            /\ Lookup(replica[r], HostA) = [ip |-> Winner.IP, found |-> TRUE]
            /\ GetMeta(replica[r], HostA) =
                 [meta |-> RecordMeta(Winner.Timestamp, Winner.NodeID),
                  found |-> TRUE]

\* both replicas have applied two adds that tie on the timestamp and carry
\* different ips, so the node id decides
C1_Witness ==
    /\ OrderDone(1) /\ OrderDone(2)
    /\ TwoAddsDistinctStamps
    /\ \E d1, d2 \in batch :
        d1.Timestamp = d2.Timestamp /\ d1.NodeID # d2.NodeID /\ d1.IP # d2.IP

\* no two deltas of the batch carry the same (timestamp, node id)
DistinctStamps ==
    \A d1, d2 \in batch :
        d1 # d2 => (d1.Timestamp # d2.Timestamp \/ d1.NodeID # d2.NodeID)

\* C2: the final store (Lookup result and metadata) is the same for every
\* delivery order of a set of adds and removes for one hostname; stated for
\* sets whose deltas carry pairwise distinct stamps, the case LWW orders.
C2_DeliveryOrderIndependent ==
    (OrderDone(1) /\ OrderDone(2) /\ DistinctStamps) =>
        /\ Lookup(replica[1], HostA) = Lookup(replica[2], HostA)
        /\ GetMeta(replica[1], HostA) = GetMeta(replica[2], HostA)

IsApply == call.op = "ApplyMessage"
CallHost == ToLower(call.msg.Hostname)

\* the call ran on a store that holds a record with metadata for its hostname
OnStoredRecord ==
    /\ IsApply
    /\ CallHost \in DOMAIN call.before.data
    /\ CallHost \in DOMAIN call.before.meta

\* C7: on a record stored by an add (h,ip,t,n), a remove with a greater
\* (timestamp, node id) makes Lookup(h) not-found and deletes h's metadata;
\* a remove with a stamp that is not greater is rejected and changes nothing.
C7_RemoveAfterAdd ==
    (OnStoredRecord /\ call.msg.Action = RecordActionRemove) =>
        LET stored == call.before.meta[CallHost] IN
        IF StampLess(stored.Timestamp, stored.NodeID,
                     call.msg.Timestamp, call.msg.NodeID)
        THEN /\ call.ok
             /\ ~Lookup(records, call.msg.Hostname).found
             /\ ~GetMeta(records, call.msg.Hostname).found
        ELSE /\ ~call.ok
             /\ records = call.before

\* a remove with a greater stamp was applied to a stored record
C7_Witness ==
    /\ OnStoredRecord
    /\ call.msg.Action = RecordActionRemove
    /\ call.ok
    /\ call.msg.Timestamp = call.before.meta[CallHost].Timestamp

\* C8: an add or remove with the stored record's timestamp wins exactly when
\* its node id is strictly greater than the stored one; with exactly the
\* stored stamp it is rejected and ip, timestamp and node id stay.
C8_TieBreakByNodeID ==
    (/\ OnStoredRecord
     /\ call.msg.Action \in {RecordActionAdd, RecordActionRemove}
     /\ call.msg.Timestamp = call.before.meta[CallHost].Timestamp) =>
        LET stored == call.before.meta[CallHost] IN
        /\ call.ok <=> StrLess(stored.NodeID, call.msg.NodeID)
        /\ (call.ok /\ call.msg.Action = RecordActionAdd) =>
              /\ Lookup(records, call.msg.Hostname).ip = call.msg.IP
              /\ GetMeta(records, call.msg.Hostname).meta =
                   RecordMeta(call.msg.Timestamp, call.msg.NodeID)
        /\ (call.ok /\ call.msg.Action = RecordActionRemove) =>
              ~Lookup(records, call.msg.Hostname).found
        /\ ~call.ok => records = call.before
        /\ call.msg.NodeID = stored.NodeID =>
              (~call.ok /\ records = call.before)

\* a writer presented exactly the stored (timestamp, node id) with another ip
C8_Witness ==
    /\ OnStoredRecord
    /\ call.msg.Action = RecordActionAdd
    /\ call.msg.Timestamp = call.before.meta[CallHost].Timestamp
    /\ call.msg.NodeID = call.before.meta[CallHost].NodeID
    /\ call.msg.IP # call.before.data[CallHost]

\* C9: ApplyMessage returns true exactly when the ip map or the metadata map
\* changed; when it returns false both maps are as before.
C9_TrueIffChanged ==
    IsApply => (call.ok <=> records # call.before)

\* an action that is neither add nor remove met a non-empty store
C9_Witness ==
    /\ IsApply
    /\ call.msg.Action = RecordActionOther
    /\ ~call.ok
    /\ ToLower(call.msg.Hostname) \in DOMAIN call.before.data

\* C10: under any interleaving of mutators and a reader, the data map is
\* always the result of the completed publications applied one whole call at
\* a time, the map a Lookup loaded equals that store at the moment of the
\* load and stays as loaded, a found ip is one a mutator wrote for that
\* hostname, and the load never waits for the mutex.
C10_LookupNeverTorn ==
    /\ dataPtr = abs.data
    /\ rd.pc = "index" => rd.snap = rd.snap0
    /\ (rd.pc = "done" /\ rd.res.found) => rd.res.ip \in writtenIps[rd.host]
    /\ rd.pc = "load" => ENABLED LookupLoad

\* a Lookup returned the ip a mutator had stored in the data map while that
\* mutator still held the mutex, its metadata not yet stored
C10_Witness ==
    /\ rd.pc = "done"
    /\ rd.res.found
    /\ mu # 0
    /\ Instr(mu) = "storeMeta"
    /\ rd.host = wr[mu].h
    /\ rd.res.ip = wr[mu].op.ip
    /\ calls = 1

\* the hostnames the tracker holds, as the store keys them
TrackedKeys ==
    UNION {{ToLower(h) : h \in SeqToSet(containers[id])} :
             id \in DOMAIN containers}

\* C6: without a callback, after any sequence of syncs and start/stop/die
\* events the hostnames in the record store are exactly the hostnames of
\* the containers in the tracker.
C6_StoreMatchesTracker ==
    DOMAIN wrecords.data = TrackedKeys

\* the running containers that carry hostnames, as ContainerList reports them
Listed == {id \in DOMAIN docker : ExtractHostnames(docker[id]) # << >>}

\* the hostnames of the listed containers, as the store keys them
ListedKeys ==
    UNION {{ToLower(h) : h \in SeqToSet(ExtractHostnames(docker[id]))} :
             id \in Listed}

\* C21: when the initial sync of a new connection completes, the tracker
\* holds exactly the listed running containers that carry hostnames, each
\* with its hostnames, and the store holds exactly the hostnames of the
\* listed containers.
C21_SyncMatchesListing ==
    [][(\E list \in Listings : Reconnect(list)) =>
          /\ DOMAIN containers' = Listed
          /\ \A id \in Listed : containers'[id] = ExtractHostnames(docker[id])
          /\ DOMAIN wrecords'.data = ListedKeys]_vars

(***************************************************************************)
(* Claims about the cluster.                                               *)
(***************************************************************************)
ClusterKeys == {ToLower(h) : h \in {ValA, ValB}}

\* no delta is queued for transmission or waits in an incoming channel
Drained == \A n \in Nodes : broadcasts[n] = {} /\ msgChan[n] = << >>

\* C3: once local changes have stopped and the nodes have exchanged their
\* full states in both directions, all stores hold the same hostname-to-ip
\* mapping.
C3_SyncedStoresAgree ==
    (synced /\ Drained) =>
        \A n, m \in Nodes : stores[n].data = stores[m].data

\* the nodes that have emitted a delta for the hostname
Origins(h) == {n \in Nodes : h \in DOMAIN localLog[n]}

\* node n is the only origin of h, its last delta for h is a remove, and
\* that delta never reached a peer
RemoveLostAtOrigin(n, h) ==
    /\ Origins(h) = {n}
    /\ localLog[n][h].action = RecordActionRemove
    /\ \E d \in lost :
          /\ d.h = h /\ d.n = NodeName(n) /\ d.a = RecordActionRemove
          /\ d.t = localLog[n][h].timestamp

\* C4: when the remove of a hostname was lost on its way from the origin,
\* after a full-state sync the hostname is absent on both nodes.
C4_LostRemoveRecovered ==
    (synced /\ Drained) =>
        \A n \in Nodes, h \in ClusterKeys :
            RemoveLostAtOrigin(n, h) =>
                \A m \in Nodes : ~Lookup(stores[m], h).found

\* the store holds the delta or a newer version of the hostname
Reflects(r, msg) ==
    LET l == Lookup(r, msg.Hostname)
        g == GetMeta(r, msg.Hostname)
        newer == g.found /\ StampLess(msg.Timestamp, msg.NodeID,
                                      g.meta.Timestamp, g.meta.NodeID)
        same == g.found /\ g.meta = RecordMeta(msg.Timestamp, msg.NodeID)
    IN  IF msg.Action = RecordActionAdd
        THEN l.found /\ (newer \/ (same /\ l.ip = msg.IP))
        ELSE ~l.found \/ newer

\* what GetBroadcasts of node n can return
Retrievable(n) == {b.data : b \in broadcasts[n]}

\* C5: at the moment a delta enters the broadcast queue of a node, the
\* node's store reflects the delta or a newer version.
C5_AppliedBeforeQueued ==
    [][\A n \in Nodes :
         \A d \in Retrievable(n)' \ Retrievable(n) :
            Reflects(stores'[n], DecodeRecordMessage(d))]_vars

(***************************************************************************)
(* Claims about the unstamped Add, the delegate and the manager.           *)
(***************************************************************************)
IsAdd == call.op = "Add"

\* C11: Add stores the ip unconditionally and stamps the record, so that
\* after Add the hostname has metadata and a later LWW-guarded add with an
\* older timestamp is rejected.
C11_AddStampsRecord ==
    IsAdd =>
        LET g == GetMeta(records, call.hostname) IN
        /\ Lookup(records, call.hostname) = [ip |-> call.ip, found |-> TRUE]
        /\ g.found
        /\ \A t \in Timestamps, n \in NodeIDs :
              t < g.meta.Timestamp =>
                 ~AddWithMeta(records, call.hostname, Ip2, t, n).ok

\* C11 as amended: Add stores the ip unconditionally and leaves the
\* metadata map as it was; on a hostname without metadata the record has
\* none afterwards, GetAllWithMeta reports it with the zero stamp, and every
\* later LWW-guarded add is accepted, whatever its timestamp.
C11_AddLeavesMetadata ==
    IsAdd =>
        LET h == ToLower(call.hostname) IN
        /\ Lookup(records, call.hostname) = [ip |-> call.ip, found |-> TRUE]
        /\ records.meta = call.before.meta
        /\ ~GetMeta(call.before, call.hostname).found =>
              /\ ~GetMeta(records, call.hostname).found
              /\ GetAllWithMeta(records)[h] =
                    RecordEntry(call.ip, 0, EmptyString)
              /\ \A t \in Timestamps, n \in NodeIDs :
                    AddWithMeta(records, call.hostname, Ip2, t, n).ok

\* Add ran on a hostname that had no metadata
C11_Witness ==
    /\ IsAdd
    /\ ~GetMeta(call.before, call.hostname).found
    /\ call.before.meta # EmptyMap

\* the last call merged a decodable snapshot
IsMerge == mcall.op = "MergeRemoteState" /\ ~UnmarshalFails(mcall.buf)
Snapshot == DecodeFullState(mcall.buf).Records

\* the snapshot's entry for h is in the store, ip and stamp
HoldsEntry(r, h) ==
    /\ Lookup(r, h) = [ip |-> Snapshot[h].IP, found |-> TRUE]
    /\ GetMeta(r, h) =
         [meta |-> RecordMeta(Snapshot[h].Timestamp, Snapshot[h].NodeID),
          found |-> TRUE]

\* the store's stamp for h is greater than or equal to the snapshot's
LocalStampWins(r, h) ==
    /\ GetMeta(r, h).found
    /\ ~StampLess(GetMeta(r, h).meta.Timestamp, GetMeta(r, h).meta.NodeID,
                  Snapshot[h].Timestamp, Snapshot[h].NodeID)

\* C12: MergeRemoteState applies every entry of the snapshot as an
\* LWW-guarded add: a hostname absent locally is added with the entry's ip
\* and stamp, a hostname whose local stamp is greater or equal keeps its
\* local ip and stamp, and an empty store ends equal to the snapshot.
C12_MergeAppliesSnapshot ==
    IsMerge =>
        /\ \A h \in DOMAIN Snapshot :
              /\ ~Lookup(mcall.before, h).found => HoldsEntry(mstore, h)
              /\ LocalStampWins(mcall.before, h) =>
                    /\ Lookup(mstore, h) = Lookup(mcall.before, h)
                    /\ GetMeta(mstore, h) = GetMeta(mcall.before, h)
        /\ mcall.before = NewRecords =>
              /\ GetAllWithMeta(mstore) = Snapshot
              /\ DOMAIN mstore.meta = DOMAIN Snapshot

\* the add node n emits for the hostname with timestamp t
EmittedAdd(n, t) ==
    RecordMessage(GossipHost, NodeIP(n), RecordActionAdd, t, NodeName(n))

\* nodes 1 and 2 emitted one add each with the timestamp t, and each node's
\* worker applied the other's
ConflictDelivered(t) ==
    /\ emitted[1] = {EmittedAdd(1, t)}
    /\ emitted[2] = {EmittedAdd(2, t)}
    /\ EmittedAdd(2, t) \in gapplied[1]
    /\ EmittedAdd(1, t) \in gapplied[2]

\* C13: when node "1" and node "2" emit adds for one hostname with the same
\* timestamp and each delta is delivered to the other node, both nodes end
\* with the ip and the stamp of node "2", in every interleaving.
C13_ConflictConverges ==
    \A t \in Timestamps :
        ConflictDelivered(t) =>
            \A n \in Nodes :
                /\ Lookup(gstore[n], GossipHost) =
                      [ip |-> NodeIP(2), found |-> TRUE]
                /\ GetMeta(gstore[n], GossipHost) =
                      [meta |-> RecordMeta(t, NodeName(2)), found |-> TRUE]

\* both deltas were delivered and the broadcast queues are empty again
C13_Witness ==
    /\ \E t \in Timestamps : ConflictDelivered(t)
    /\ gqueue[1] = {} /\ gqueue[2] = {}

\* node 2's store holds the delta, or a record with a greater stamp
PeerHolds(msg) ==
    LET l == Lookup(gstore[2], msg.Hostname)
        g == GetMeta(gstore[2], msg.Hostname)
    IN  /\ l.found
        /\ \/ l.ip = msg.IP
           \/ g.found /\ StampLess(msg.Timestamp, msg.NodeID,
                                   g.meta.Timestamp, g.meta.NodeID)

C15_NotifyMsgNeverBlocks ==
    /\ ChanCap <= msgChanBufferSize
    /\ Len(dchan) <= ChanCap
    /\ \A data \in NotifyInputs : ENABLED DelegateNotifyMsg(data)
    /\ (dcall.op = "NotifyMsg" /\ Len(dcall.chan) = ChanCap) =>
          /\ dchan = dcall.chan
          /\ dstore = dcall.store

\* a decodable delta arrived while the channel was full
C15_Witness ==
    /\ dcall.op = "NotifyMsg"
    /\ dcall.data \notin {EmptyBytes, InvalidJSON}
    /\ Len(dcall.chan) = ChanCap

\* C16: NotifyMsg or MergeRemoteState called with empty, nil or undecodable
\* bytes leaves the store and the channel unchanged.
C16_BadBytesIgnored ==
    (dcall.op \in {"NotifyMsg", "MergeRemoteState"}
     /\ dcall.data \in {EmptyBytes, InvalidJSON}) =>
        /\ dstore = dcall.store
        /\ dchan = dcall.chan

\* undecodable bytes arrived at a delegate that holds records and has room
\* in its channel
C16_Witness ==
    /\ dcall.op \in {"NotifyMsg", "MergeRemoteState"}
    /\ dcall.data = InvalidJSON
    /\ dcall.store # NewRecords
    /\ Len(dcall.chan) < ChanCap

\* the manager has been started and its memberlist holds the port
Running == cmMemberlist # 0 /\ cmMemberlist \in bound

\* the manager's memberlist has been shut down
Stopped == cmMemberlist # 0 /\ cmMemberlist \notin bound

\* C17: Start on a running manager returns an error and changes none of the
\* manager's fields, and a Stop that follows cancels the context of the
\* first Start, ends the delegate worker and the discovery loops and shuts
\* the memberlist down.
C17_SecondStartLeavesState ==
    /\ [][(Running /\ ManagerStartCall) =>
            /\ mlast'.err
            /\ UNCHANGED <<cmScope, cmMemberlist, cmDiscovery, dScope,
                           workers, discLoops, bound>> ]_vars
    /\ [](mlast.op = "Stop" /\ cmMemberlist # 0 =>
            /\ ScopeDone(created, cmMemberlist)
            /\ cmMemberlist \notin bound
            /\ workers = {}
            /\ discLoops = {})

\* C18: Stop on a manager that was never started changes nothing and
\* returns no error; Stop on a stopped manager returns no error and calls
\* neither Leave nor Shutdown; a stopped manager stays stopped.
C18_StopIdempotent ==
    [][/\ (created = << >> /\ ManagerStopCall) =>
            /\ ~mlast'.err
            /\ UNCHANGED <<cmScope, cmMemberlist, cmDiscovery, dScope,
                           created, workers, discLoops, bound, leaveCalls,
                           shutdownCalls>>
       /\ (Stopped /\ ManagerStopCall) =>
            /\ ~mlast'.err
            /\ leaveCalls' = leaveCalls
            /\ shutdownCalls' = shutdownCalls
       /\ Stopped => Stopped']_vars

\* the number of places of a sequence that hold x
Count(seq, x) == Cardinality({i \in DOMAIN seq : seq[i] = x})

\* the callback was called exactly once with this change
CalledOnce(cbs, h, ip, isAdd) ==
    Cardinality({i \in DOMAIN cbs :
        /\ cbs[i].hostname = h
        /\ cbs[i].ip = ip
        /\ cbs[i].added = isAdd}) = 1

\* C19: updateContainer on a tracked container emits one remove for each
\* hostname of old minus new and one add for each hostname of new minus
\* old and nothing else, leaves the tracker entry equal to new, applies
\* each change to the store and, when a callback is set, passes each change
\* once to the callback.
C19_UpdateEmitsDifference ==
    (tcall.op = "update" /\ tcall.tracked) =>
        LET old == SeqToSet(tcall.old)
            new == SeqToSet(tcall.new)
        IN  /\ SeqToSet(tcall.removed) = old \ new
            /\ SeqToSet(tcall.added) = new \ old
            /\ \A h \in old \ new : Count(tcall.removed, h) = 1
            /\ \A h \in new \ old : Count(tcall.added, h) = 1
            /\ tcontainers[tcall.id] = tcall.new
            /\ \A h \in new \ old :
                  Lookup(trecords, h) = [ip |-> HostIP, found |-> TRUE]
            /\ \A h \in old \ new :
                  \/ ~Lookup(trecords, h).found
                  \/ \E g \in new \ old : ToLower(g) = ToLower(h)
            /\ Len(tcall.callbacks) =
                  IF tcallback THEN Len(tcall.removed) + Len(tcall.added)
                  ELSE 0
            /\ tcallback =>
                  /\ \A h \in old \ new :
                        CalledOnce(tcall.callbacks, h, "", FALSE)
                  /\ \A h \in new \ old :
                        CalledOnce(tcall.callbacks, h, HostIP, TRUE)

\* a tracked container changed one hostname for another and kept a third,
\* with a callback set
C19_Witness ==
    /\ tcall.op = "update"
    /\ tcall.tracked
    /\ tcallback
    /\ SeqToSet(tcall.old) \ SeqToSet(tcall.new) # {}
    /\ SeqToSet(tcall.new) \ SeqToSet(tcall.old) # {}
    /\ SeqToSet(tcall.new) \cap SeqToSet(tcall.old) # {}

\* C20: a stop or die event for a tracked id removes every hostname of the
\* id from the store, emits one remove per hostname and drops the id from
\* the tracker; for an untracked id it changes neither store nor tracker
\* and emits nothing.
C20_StopRemovesTracked ==
    (tcall.op \in {"stop", "die"}) =>
        IF tcall.tracked
        THEN /\ \A h \in SeqToSet(tcall.old) : ~Lookup(trecords, h).found
             /\ \A h \in SeqToSet(tcall.old) : Count(tcall.removed, h) = 1
             /\ SeqToSet(tcall.removed) = SeqToSet(tcall.old)
             /\ tcall.id \notin DOMAIN tcontainers
             /\ \A id \in DOMAIN tcall.containers \ {tcall.id} :
                   /\ id \in DOMAIN tcontainers
                   /\ tcontainers[id] = tcall.containers[id]
             /\ Len(tcall.callbacks) =
                   IF tcallback THEN Len(tcall.old) ELSE 0
             /\ tcallback =>
                   \A h \in SeqToSet(tcall.old) :
                       CalledOnce(tcall.callbacks, h, "", FALSE)
        ELSE /\ trecords = tcall.store
             /\ tcontainers = tcall.containers
             /\ tcall.removed = << >>
             /\ tcall.callbacks = << >>

\* a container tracked with two hostnames stopped while another container
\* was tracked, with a callback set
C20_Witness ==
    /\ tcall.op \in {"stop", "die"}
    /\ tcall.tracked
    /\ tcallback
    /\ Len(tcall.old) = 2
    /\ tcontainers # EmptyMap

(***************************************************************************)
(* Claims about the DNS handler.                                           *)
(***************************************************************************)
IsQuery == hlast.op = "ServeDNS"

\* the store key the query names: lower case, without the trailing dot
QueryKey == ToLower(TrimSuffixDot(hlast.q.name))

\* the queried name is in the store
Known == QueryKey \in DOMAIN hrecords.data

\* the IPv4 address the stored text denotes, NilIP when it denotes none
StoredV4 ==
    (CHOOSE ip \in HandlerIPs : ip.text = hrecords.data[QueryKey]).v4

\* C23: an A or AAAA query for a name that is not in the store, with
\* fall-through disabled and the drop policy, writes no message and returns
\* the success code without an error.
C23_UnknownDropped ==
    (/\ IsQuery
     /\ hlast.q.qtype \in {TypeA, TypeAAAA}
     /\ ~Known
     /\ ~hcfg.Fall
     /\ hcfg.UnknownAction = ActionDrop) =>
        /\ hlast.res.written = << >>
        /\ hlast.res.code = RcodeSuccess
        /\ ~hlast.res.err
        /\ ~hlast.res.next

\* an AAAA query for an unknown name was dropped although a next handler
\* is configured
C23_Witness ==
    /\ IsQuery
    /\ hlast.q.qtype = TypeAAAA
    /\ ~Known
    /\ ~hcfg.Fall
    /\ hcfg.Next
    /\ hcfg.UnknownAction = ActionDrop

\* C24: an A query for a name in the store whose address is IPv4 text is
\* answered with one written response holding one A record with the stored
\* address and the configured TTL, authoritative, with the success code.
C24_KnownAnswered ==
    (IsQuery /\ hlast.q.qtype = TypeA /\ Known /\ StoredV4 # NilIP) =>
        /\ Len(hlast.res.written) = 1
        /\ LET m == hlast.res.written[1] IN
           /\ Len(m.Answer) = 1
           /\ m.Answer[1].Rrtype = TypeA
           /\ m.Answer[1].A = StoredV4
           /\ m.Answer[1].Ttl = hcfg.TTL
           /\ m.Authoritative
           /\ m.Rcode = RcodeSuccess
        /\ hlast.res.code = RcodeSuccess
        /\ ~hlast.res.err
        /\ ~hlast.res.next

\* the query "A." was answered from the record stored for "a" with the
\* address 192.168.1.100
C24_Witness ==
    /\ IsQuery
    /\ hlast.q = [name |-> <<65, Dot>>, qtype |-> TypeA]
    /\ Known
    /\ StoredV4 = <<192, 168, 1, 100>>

\* C25: an AAAA query for a name in the store is answered with one written
\* response with the success code, no answers and the authoritative bit.
C25_KnownAAAAEmptyAuthoritative ==
    (IsQuery /\ hlast.q.qtype = TypeAAAA /\ Known) =>
        /\ Len(hlast.res.written) = 1
        /\ hlast.res.written[1].Rcode = RcodeSuccess
        /\ hlast.res.written[1].Answer = << >>
        /\ hlast.res.written[1].Authoritative
        /\ hlast.res.code = RcodeSuccess

\* C26: an A query for a name whose stored address is not IPv4 text is
\* resolved as a miss: the handler does what it does for an unknown name
\* and writes no A answer.
C26_InvalidIPIsMiss ==
    (IsQuery /\ hlast.q.qtype = TypeA /\ Known /\ StoredV4 = NilIP) =>
        /\ hlast.res = HandleUnknown(hcfg, hlast.q)
        /\ \A i \in DOMAIN hlast.res.written :
              hlast.res.written[i].Answer = << >>

\* C27: a query that is neither A nor AAAA goes to the next handler, or
\* yields the server-failure code when there is none, whatever the policy
\* and the fall-through setting; it is neither dropped nor answered.
C27_OtherTypesDelegated ==
    (IsQuery /\ hlast.q.qtype \notin {TypeA, TypeAAAA}) =>
        /\ hlast.res.written = << >>
        /\ IF hcfg.Next THEN hlast.res.next
           ELSE hlast.res.code = RcodeServerFailure /\ hlast.res.err

(***************************************************************************)
(* Claims about the watcher's worker.                                      *)
(***************************************************************************)
\* a step in which the watch loop sees a runtime error
LoopError == LoopConnectError \/ LoopSyncError \/ LoopStreamError

\* C22: Stop returns only after the worker has returned, and a Stop that
\* waits for the worker does return, wherever the worker is when the
\* context is cancelled.
C22_StopWaitsForWorker ==
    /\ [](stopPc = "returned" => lpc = "done")
    /\ (stopPc = "waiting") ~> (stopPc = "returned")

\* Stop waits while the worker sleeps in the longest backoff
C22_Witness ==
    /\ stopPc = "waiting"
    /\ lpc = "sleep"
    /\ backoff = MaxBackoff

\* C28 as stated: every runtime error, a failed inspect on a start event
\* included, closes the connection and sends the worker to the backoff
\* sleep.
C28_EveryErrorReconnects ==
    [][(LoopError \/ LoopInspectError) =>
          /\ ~lclient'
          /\ lpc' = "sleep"]_vars

\* C28: a failed connect, ping, list or event-stream read leaves the
\* watcher without a client and sends the worker to the sleep with the
\* current backoff, from which it returns to the head of the connect loop;
\* events are read only after a sync; a failed inspect on a start event
\* skips the event and leaves client, position, tracker and store alone.
C28_LoopErrorsReconnect ==
    /\ [][LoopError =>
            /\ ~lclient'
            /\ lpc' = "sleep"
            /\ backoff' = backoff]_vars
    /\ [][(lpc = "sleep" /\ lpc' # "sleep") => lpc' = "top"]_vars
    /\ [][(lpc # "subscribe" /\ lpc' = "subscribe") => LoopSyncOk]_vars
    /\ [][(lpc # "watch" /\ lpc' = "watch") => LoopSubscribe]_vars
    /\ [][LoopInspectError =>
            /\ lclient' = lclient
            /\ lpc' = "watch"
            /\ UNCHANGED <<lcontainers, lrecords, backoff>> ]_vars

\* an inspect failed for a container that was already gone, and the worker
\* still reads events on the same connection
C28_Witness ==
    /\ lerr = "inspect"
    /\ lpc = "watch"
    /\ lclient
    /\ reachable
    /\ ~lcancelled

\* C29: the retry delay stays between 1 s and 5 min; it starts at 1 s, the
\* sleep after every failure doubles it up to the cap, and only a
\* successful connect resets it to 1 s.
C29_BackoffBounds ==
    /\ [](/\ BackoffStart <= backoff
          /\ backoff <= MaxBackoff
          /\ lpc = "none" => backoff = BackoffStart)
    /\ [][LoopError => lpc' = "sleep"]_vars
    /\ [][LoopSleepEnd => backoff' = Min(2 * backoff, MaxBackoff)]_vars
    /\ [][backoff' # backoff =>
            \/ LoopSleepEnd
            \/ LoopConnectOk /\ backoff' = BackoffStart]_vars

\* the worker sleeps the capped delay after a failed connect
C29_Witness ==
    /\ lpc = "sleep"
    /\ lerr = "connect"
    /\ backoff = MaxBackoff

\* C30: from a runtime error until the next sync runs, tracker and store
\* do not change.
C30_RecordsKeptWhileDisconnected ==
    /\ [][LoopError => UNCHANGED <<lcontainers, lrecords>> ]_vars
    /\ [][(lpc \in {"sleep", "top", "connect"}) =>
            UNCHANGED <<lcontainers, lrecords>> ]_vars
    /\ [][(lpc = "sync" /\ ~LoopSyncOk) =>
            UNCHANGED <<lcontainers, lrecords>> ]_vars

\* the stream failed, the container has gone meanwhile and its record is
\* still in the store while the worker sleeps
C30_Witness ==
    /\ lpc = "sleep"
    /\ lerr = "stream"
    /\ lrecords # NewRecords
    /\ ldocker = EmptyMap

(***************************************************************************)
(* Claims about the store under concurrent use.                            *)
(***************************************************************************)
\* C35: every entry of a snapshot taken while AddWithMeta and RemoveWithMeta
\* run pairs an ip with the stamp of the update that wrote that ip: each
\* writer writes its own ip under its own node id, so the entry's ip and
\* node id belong to one writer.
C35_SnapshotEntriesConsistent ==
    rd.pc = "snapped" =>
        \A h \in DOMAIN rd.res :
            \E t \in Writers :
                /\ rd.res[h].IP = WriterIp(t)
                /\ rd.res[h].NodeID = WriterNode(t)

\* C36: after any sequence of Add, Remove and ApplyMessage calls a hostname
\* has metadata exactly when it has an ip.
C36_MetaIffIp ==
    \A h \in Hostnames :
        GetMeta(records, h).found <=> Lookup(records, h).found

\* C37: once every mutator has returned, the published maps are the result
\* of applying the calls one after the other in the order of their stores:
\* no call's effect is lost, whatever hostnames the calls address.
C37_NoLostUpdate ==
    (\A t \in Writers : wr[t].pc = 0) =>
        /\ dataPtr = abs.data
        /\ metaPtr = abs.meta

\* two calls on different hostnames have returned and both records are there
C37_Witness ==
    /\ \A t \in Writers : wr[t].pc = 0
    /\ calls = 2
    /\ DOMAIN dataPtr = ConcKeys

\* the container runs with a label the watcher reads
LoopLabelled ==
    /\ LoopID \in DOMAIN ldocker
    /\ ExtractHostnames(ldocker[LoopID]) # << >>

\* every hostname of the running container resolves
LoopRegistered ==
    /\ LoopID \in DOMAIN ldocker
    /\ \A h \in SeqToSet(ExtractHostnames(ldocker[LoopID])) :
          Lookup(lrecords, h).found

\* C38: a labelled container that runs while the watcher is connected, the
\* list call of the sync behind it, is registered eventually unless the
\* container stops, the runtime becomes unreachable, the connection is
\* closed or the watcher is stopped.
C38_StartedContainerRegistered ==
    (lclient /\ reachable /\ lpc \in {"subscribe", "watch"} /\ LoopLabelled)
        ~> \/ LoopRegistered
           \/ ~LoopLabelled
           \/ ~reachable
           \/ ~lclient
           \/ lcancelled

(***************************************************************************)
(* Claims about the watcher's life cycle.                                  *)
(***************************************************************************)
\* C39: at most one watchLoop goroutine runs; none runs when the watcher is
\* not running and no Start or Stop call is under way; a Start on a running
\* watcher returns at once and changes neither the context, the cancel
\* function, the wait group nor the goroutines.
C39_OneWorker ==
    /\ [](Cardinality(loops) <= 1)
    /\ []((~dwRunning /\ lifePc = IdleCallers) => loops = {})
    /\ [][\A c \in LifeCallers :
            (dwRunning /\ LifeStartLocked(c)) =>
                UNCHANGED <<dwCtx, dwCancel, ctxDone, dwWg, loops, lifePc>> ]_vars

(***************************************************************************)
(* Claims about the manager's teardown and its join loop.                  *)
(***************************************************************************)
\* the place of a teardown step in the order of Stop
StopPos(x) == CHOOSE i \in DOMAIN StopOrder : StopOrder[i] = x

\* the steps a complete Stop performs on a started manager
StopSteps ==
    IF tdDiscovery = "nil"
    THEN <<"cancel", "delegate", "leave", "shutdown">>
    ELSE StopOrder

\* C32: the steps of Stop happen in the order cancel, discovery, delegate,
\* Leave, Shutdown, each after the one before it has returned: when Leave is
\* called the context is cancelled, discovery is stopped and the delegate
\* worker has returned; Shutdown follows Leave whether Leave failed or not,
\* and a Stop that returns has performed every step.
C32_StopOrder ==
    /\ [](\A i, j \in DOMAIN tdStopTrace :
            i < j => StopPos(tdStopTrace[i]) < StopPos(tdStopTrace[j]))
    /\ []("leave" \in SeqToSet(tdStopTrace) =>
            /\ tdCtxDone
            /\ tdDiscovery # "running"
            /\ tdWorker # "running")
    /\ [](tdStopPc = "returned" => tdStopTrace = StopSteps)
    /\ [][TdStopLeave => tdStopPc' = "shutdown"]_vars

\* Leave has returned an error and Stop goes on to Shutdown
C32_Witness ==
    /\ tdStopPc = "shutdown"
    /\ tdStopErr
    /\ tdStopTrace = <<"cancel", "discovery", "delegate", "leave">>

\* C33: without seeds Join returns at once without error; the join loop
\* calls the library's join only after it has seen a peer and a member
\* count of 1 on the same tick; after the join, failed or not, the loop
\* waits for the next tick, and it returns only when the context is
\* cancelled.
C33_DiscoveryJoin ==
    /\ [][(TdJoinAct /\ ~tdJoin.seeds) =>
            /\ tdJoin'.pc = "returned"
            /\ ~tdJoin'.err]_vars
    /\ [][TdLoopJoin =>
            /\ tdLoop.peers
            /\ tdLoop.members = 1
            /\ tdLoop'.pc = "select"]_vars
    /\ [][(tdLoop.pc # "exited" /\ tdLoop'.pc = "exited") => tdCtxDone]_vars

\* C34: a Stop that has been called returns.
C34_StopTerminates ==
    (tdStopPc \notin {"idle", "returned"}) ~> (tdStopPc = "returned")

\* C40: once Stop has returned the join loop calls neither NumMembers nor
\* Join, and it returns eventually.
C40_LoopQuietAfterStop ==
    /\ [][tdStopPc = "returned" => ~(TdLoopNumMembers \/ TdLoopJoin)]_vars
    /\ (tdStopPc = "returned" /\ tdLoop.pc # "none") ~> (tdLoop.pc = "exited")

Locks == {"W", "M", "S"}

Compose(A, B) ==
    {<<p[1][1], p[2][2]>> : p \in {q \in A \X B : q[1][2] = q[2][1]}}

\* no lock is reached from itself along the recorded pairs
Acyclic(E) ==
    LET E2 == Compose(E, E)
        E3 == Compose(E2, E)
    IN  \A l \in Locks : <<l, l>> \notin E \cup E2 \cup E3

\* C31: while the watch loop is about to call or is inside the record-change
\* callback it does not hold the watcher's mutex, neither for writing nor
\* for reading; no goroutine takes the watcher's mutex while it holds the
\* manager's or the store's, the manager's Stop and the delegate worker never
\* hold it at all; and the pairs of locks taken one inside the other
\* (watcher, manager, store) contain no cycle.
C31_CallbackOutsideLock ==
    /\ lkPc["worker"] \in CallbackPcs \cup {"call"} => "W" \notin Held("worker")
    /\ \A e \in lkEdges : e[2] # "W"
    /\ \A g \in {"manager", "delegate"} : "W" \notin Held(g)
    /\ Acyclic(lkEdges)

\* the removal pass of syncContainers has taken the store's mutex under the
\* watcher's, and its callback holds the manager's and the store's
C31_Witness ==
    /\ lkPc["worker"] = "notifyStore"
    /\ lkJob.kind = "sync"
    /\ lkEdges = {<<"W", "S">>, <<"M", "S">>}
    /\ Held("worker") = {"M", "S"}

====
